---- MODULE Spec2Model ----
(***************************************************************************)
(* Streaming fan-out core of mcp-chat: the subscriber registry             *)
(* (sseConnections), the three broadcast functions, the send-message       *)
(* route and generateStreamingAIResponse of backend/src/index.js, and the  *)
(* provider streaming clients of backend/src/aiService.js.                 *)
(*                                                                         *)
(* Node runs one handler at a time; a handler gives up control only at an  *)
(* await or when it returns.  Every action below is one such run-to-       *)
(* completion slice: from one suspension point of the code to the next.    *)
(***************************************************************************)
EXTENDS Integers, Sequences, FiniteSets, TLC

\* ---------------------------------------------------------------- bounds
NConvs    == 1      \* conversations that exist
NSinks    == 2      \* SSE subscribe requests over a run
MaxCycles == 2      \* send-message requests (role user) over a run
MaxLines  == 2      \* lines the upstreams send over a run
MaxFaults == 1      \* failures over a run: dead sockets, database and upstream errors
NUsers    == 2      \* users with a valid token
MaxReqs   == 3      \* HTTP requests over a run of the routes
MaxRows   == 1      \* conversations created over a run of the routes
MaxInFlight == 2    \* HTTP requests in flight at a time
MaxBodyLines == 2   \* lines of a streaming body given to a read loop
MaxReads  == 2      \* reads a streaming body arrives in
MaxConns  == 2      \* rows of table ai_connections
MaxPieces == 3      \* pieces of chunkSize characters in an answer
NRooms    == 2      \* conversations that share the process
MaxSends  == 3      \* messages the user sends in one mounted hook
MaxClock  == 1      \* seconds that pass while the connections are managed

\* ------------------------------------------------------ program constants
chunkSize == 50     \* index.js: slice size of the simulated streaming

Convs  == 1..NConvs
Sinks  == 1..NSinks
Cycles == 1..MaxCycles
Users  == 1..NUsers
Reqs   == 1..MaxReqs
MaxBodyChars == 5 * MaxBodyLines   \* a line is at most 4 characters and its newline

\* Text is a sequence of tokens.  "a" stands for visible text, " " for
\* white space; the two literals of the code are tokens of their own.
Visible == "a"
Blank   == " "
NoAnswer == <<"Keine Antwort erhalten">>
ErrPrefix == "Entschuldigung, ich konnte keine Antwort generieren: "
SaveFailed == <<"Fehler beim Speichern der Antwort">>
NoActiveConnection ==
  "No active AI connection found. Please configure an AI connection first."
NotFoundOrInactive == "AI connection not found or inactive"

\* One line of an upstream streaming body, as the read loop sees it: a
\* well-formed line that carries a content fragment, or a line the loop
\* skips (malformed JSON, or JSON without content).  The streams of this
\* model send lines of LineKinds.
Skipped == "garbage"
LineKinds == {Visible}

\* What a non-streaming provider answer can carry as content.
Answers == {<< >>, <<Blank>>, <<Visible>>}

Providers == {"ollama", "openai", "demo", "other"}

VARIABLES
  sseConnections,  \* Map conversationId -> array of res (absent key = no entry)
  sinkSt,          \* per res: "new" | "open" | "broken" | "closed"
  sinkConv,        \* per res: the conversation it subscribed to (0 = none)
  sinkLog,         \* per res: the events written to it while its socket lives
  messages,        \* table messages, in insertion order
  cycle,           \* per generateStreamingAIResponse call: its locals
  faults,          \* history: the failures so far
  conversations,   \* table conversations: user_id per id, 0 for a deleted row
  reqs,            \* per HTTP request: the locals of its handler and its answer
  dec,             \* one streaming provider call of aiService: its read loop
  ai,              \* table ai_connections of two stores alike but for their keys
  client,          \* one call of the Ollama client of aiService: its endpoint loop
  hook             \* one mounted useSSE hook of the frontend

vars == <<sseConnections, sinkSt, sinkConv, sinkLog, messages, cycle, faults,
          conversations, reqs, dec, ai, client, hook>>

\* what the streaming core leaves alone
outer == <<conversations, reqs, dec, ai, client, hook>>

\* ------------------------------------------------------------ JS helpers
\* arr.splice(k, 1), k counted from 1
RemoveAt(arr, k) == SubSeq(arr, 1, k - 1) \o SubSeq(arr, k + 1, Len(arr))

\* arr.indexOf(x), counted from 1; 0 when absent
IndexOf(arr, x) ==
  IF \E k \in 1..Len(arr) : arr[k] = x
  THEN CHOOSE k \in 1..Len(arr) : arr[k] = x /\ \A j \in 1..(k - 1) : arr[j] # x
  ELSE 0

\* sseConnections.get(id) || []
Get(map, conv) == IF conv \in DOMAIN map THEN map[conv] ELSE << >>

\* sseConnections.set(id, arr)
Put(map, conv, arr) ==
  [k \in DOMAIN map \cup {conv} |-> IF k = conv THEN arr ELSE map[k]]

\* sseConnections.delete(id)
Delete(map, conv) == [k \in DOMAIN map \ {conv} |-> map[k]]

\* variant of the test below without trim()
IsEmpty(text) == text = << >>

\* !text || text.trim() === ''
IsBlank(text) == \A k \in 1..Len(text) : text[k] = Blank

\* text.slice(from, to), from and to counted from 0 as in the code
Slice(text, from, to) ==
  SubSeq(text, from + 1, IF to < Len(text) THEN to ELSE Len(text))

RECURSIVE Concat(_)
Concat(texts) == IF texts = << >> THEN << >> ELSE Head(texts) \o Concat(Tail(texts))

\* ---------------------------------------------------------------- events
\* What res.write puts on the wire: the JSON object of the code, plus the
\* cycle that sent it and, for a chunk, the position of its line in the
\* upstream stream (history only, the wire carries neither).
Connected == [type |-> "connected", conversation_id |-> 0, content |-> << >>,
              message_id |-> 0, cyc |-> 0, ord |-> 0]
ChunkEvent(conv, content, c, n) ==
  [type |-> "chunk", conversation_id |-> conv, content |-> content,
   message_id |-> 0, cyc |-> c, ord |-> n]
CompleteEvent(conv, messageId, c) ==
  [type |-> "complete", conversation_id |-> conv, content |-> << >>,
   message_id |-> messageId, cyc |-> c, ord |-> 0]
ErrorEvent(conv, errorMessage, c) ==
  [type |-> "error", conversation_id |-> conv, content |-> errorMessage,
   message_id |-> 0, cyc |-> c, ord |-> 0]

\* ------------------------------------------------------------- broadcast
\* res.write throws once the socket of res is gone
WriteThrows(s) == sinkSt[s] # "open"

\* connections.forEach((res, index) => { try { res.write(..) } catch {
\*   connections.splice(index, 1) } }): forEach visits the indices
\* 1..len fixed at its start and skips an index the array no longer has.
RECURSIVE ForEachWrite(_, _, _, _, _)
ForEachWrite(arr, k, len, logs, ev) ==
  IF k > len THEN [arr |-> arr, logs |-> logs]
  ELSE IF k > Len(arr) THEN ForEachWrite(arr, k + 1, len, logs, ev)
  ELSE IF WriteThrows(arr[k])
       THEN ForEachWrite(RemoveAt(arr, k), k + 1, len, logs, ev)
       ELSE ForEachWrite(arr, k + 1, len,
                         [logs EXCEPT ![arr[k]] = Append(@, ev)], ev)

\* variant of the loop below over the sinks of every conversation
BroadcastAll(W, conv, ev) ==
  IF conv \notin DOMAIN W.conns THEN W
  ELSE LET r == ForEachWrite(W.conns[conv], 1, Len(W.conns[conv]), W.logs, ev)
       IN  [W EXCEPT !.conns = [@ EXCEPT ![conv] = r.arr],
                     !.logs = [s \in DOMAIN r.logs |->
                                 IF /\ \E other \in DOMAIN W.conns \ {conv} :
                                         IndexOf(W.conns[other], s) > 0
                                    /\ ~WriteThrows(s)
                                 THEN Append(r.logs[s], ev) ELSE r.logs[s]]]

\* The loop shared by the three broadcast functions, on the world W =
\* [conns, logs, msgs, cyc].  Without an entry the loop runs over a fresh
\* [] and nothing changes; the array of an entry is spliced in place.
Broadcast(W, conv, ev) ==
  IF conv \notin DOMAIN W.conns THEN W
  ELSE LET r == ForEachWrite(W.conns[conv], 1, Len(W.conns[conv]), W.logs, ev)
       IN  [W EXCEPT !.conns = [@ EXCEPT ![conv] = r.arr], !.logs = r.logs]

broadcastSSEChunk(W, c, content, n) ==
  LET conv == W.cyc[c].conv
      B == Broadcast(W, conv, ChunkEvent(conv, content, c, n))
  IN  [B EXCEPT !.cyc[c].sent = Append(@, content)]

\* variant of the broadcast below that drops the subscribers of the
\* conversation once the event is written
broadcastSSECompleteCloses(W, c, messageId) ==
  LET conv == W.cyc[c].conv
      B == Broadcast(W, conv, CompleteEvent(conv, messageId, c))
  IN  [B EXCEPT !.conns = Delete(@, conv),
                !.cyc[c].terminals = @ + 1, !.cyc[c].outcome = "complete"]

broadcastSSEComplete(W, c, messageId) ==
  LET conv == W.cyc[c].conv
      B == Broadcast(W, conv, CompleteEvent(conv, messageId, c))
  IN  [B EXCEPT !.cyc[c].terminals = @ + 1, !.cyc[c].outcome = "complete"]

broadcastSSEError(W, c, errorMessage) ==
  LET conv == W.cyc[c].conv
      B == Broadcast(W, conv, ErrorEvent(conv, errorMessage, c))
  IN  [B EXCEPT !.cyc[c].terminals = @ + 1, !.cyc[c].outcome = "error"]

\* ---------------------------------------------------- the generation cycle
\* The locals of one call of generateStreamingAIResponse (and of the
\* aiService call it awaits), its position pc, and history fields:
\*   sent      the contents handed to broadcastSSEChunk, in order
\*   terminals how many complete/error broadcasts the call has made
\*   outcome   the last terminal event broadcast
\*   path      which branch produced fullResponse
\* aiConnection is what the SELECT of the AI connection gave ("unread"
\* before it ran), asked which of the two SELECTs found no row.
IdleCycle ==
  [pc |-> "idle", conv |-> 0, provider |-> "none", endpoint |-> "none",
   apiKey |-> FALSE, ep |-> 0, acc |-> << >>, nLines |-> 0, ord |-> 0,
   fullResponse |-> << >>, curLive |-> FALSE, i |-> 0, lastError |-> "none",
   sent |-> << >>, terminals |-> 0, outcome |-> "none", path |-> "none",
   aiConnection |-> "unread", asked |-> "none"]

World == [conns |-> sseConnections, logs |-> sinkLog, msgs |-> messages, cyc |-> cycle]

Apply(W) ==
  /\ sseConnections' = W.conns
  /\ sinkLog' = W.logs
  /\ messages' = W.msgs
  /\ cycle' = W.cyc

\* variant of the insert below that writes over the last row of the
\* conversation when that row has the same role
Upsert(msgs, conv, role, content, c) ==
  IF /\ msgs # << >>
     /\ msgs[Len(msgs)].conversation_id = conv
     /\ msgs[Len(msgs)].role = role
  THEN [msgs EXCEPT ![Len(msgs)].content = content, ![Len(msgs)].cyc = c]
  ELSE Append(msgs, [id |-> Len(msgs) + 1, conversation_id |-> conv, role |-> role,
                     content |-> content, cyc |-> c])

\* INSERT INTO messages (conversation_id, role, content); this.lastID is
\* the id of the new row.  cyc is history: the cycle that wrote the row.
Insert(msgs, conv, role, content, c) ==
  Append(msgs, [id |-> Len(msgs) + 1, conversation_id |-> conv, role |-> role,
                content |-> content, cyc |-> c])

\* aiService.getOllamaEndpoints(baseEndpoint)
getOllamaEndpoints(baseEndpoint) ==
  IF baseEndpoint = "localhost"
  THEN <<"localhost", "host.docker.internal", "ollama", "172.17.0.1", "192.168.65.1">>
  ELSE <<baseEndpoint>>

\* currentConnections.length: currentConnections is the array the map held
\* at line 603, or a fresh [] when it held none.  cleanup deletes an entry
\* only when its array is empty, so an array the map has dropped stays [].
CurrentLength(W, c) ==
  IF W.cyc[c].curLive THEN Len(Get(W.conns, W.cyc[c].conv)) ELSE 0

\* catch (error) of generateStreamingAIResponse: broadcast the error, then
\* start the insert of the error message
Catch(W, c, cause) ==
  LET E == broadcastSSEError(W, c, <<ErrPrefix, cause>>)
  IN  [E EXCEPT !.cyc[c].pc = "saveErr", !.cyc[c].lastError = cause]

\* variant of the step below that reports completion when it starts the
\* insert, with the id the row is going to get
FinishAnnounces(W, c) ==
  IF IsBlank(W.cyc[c].fullResponse)
  THEN Catch(W, c, "Empty response from AI service")
  ELSE [broadcastSSEComplete(W, c, Len(W.msgs) + 1) EXCEPT !.cyc[c].pc = "save"]

\* "Validate response", then start the insert of the answer
Finish(W, c) ==
  IF IsBlank(W.cyc[c].fullResponse)
  THEN Catch(W, c, "Empty response from AI service")
  ELSE [W EXCEPT !.cyc[c].pc = "save"]

\* the call is over: its locals are gone, the history fields stay
Return(W, c) ==
  [W EXCEPT !.cyc[c] = [IdleCycle EXCEPT
     !.pc = "done", !.conv = W.cyc[c].conv, !.nLines = W.cyc[c].nLines,
     !.fullResponse = W.cyc[c].fullResponse, !.lastError = W.cyc[c].lastError,
     !.sent = W.cyc[c].sent, !.terminals = W.cyc[c].terminals,
     !.outcome = W.cyc[c].outcome, !.path = W.cyc[c].path]]

\* variant of the callback below that only logs a failed insert
SaveCallbackSilent(W, c, err) ==
  IF err
  THEN Return(W, c)
  ELSE LET conv == W.cyc[c].conv
           M == Insert(W.msgs, conv, "assistant", W.cyc[c].fullResponse, c)
       IN  Return(broadcastSSEComplete([W EXCEPT !.msgs = M], c, Len(M)), c)

\* variant of the callback below without its else: after a failed insert
\* it reports the error and goes on to report completion
SaveCallbackNoElse(W, c, err) ==
  IF err
  THEN Return(broadcastSSEComplete(broadcastSSEError(W, c, SaveFailed), c, 0), c)
  ELSE LET conv == W.cyc[c].conv
           M == Insert(W.msgs, conv, "assistant", W.cyc[c].fullResponse, c)
       IN  Return(broadcastSSEComplete([W EXCEPT !.msgs = M], c, Len(M)), c)

\* callback of the insert of the answer
SaveCallback(W, c, err) ==
  IF err
  THEN Return(broadcastSSEError(W, c, SaveFailed), c)
  ELSE LET conv == W.cyc[c].conv
           M == Insert(W.msgs, conv, "assistant", W.cyc[c].fullResponse, c)
       IN  Return(broadcastSSEComplete([W EXCEPT !.msgs = M], c, Len(M)), c)

\* callback of the insert of the error message: a failure is only logged
SaveErrCallback(W, c, err) ==
  IF err
  THEN Return(W, c)
  ELSE Return([W EXCEPT !.msgs = Insert(@, W.cyc[c].conv, "assistant",
                                        <<ErrPrefix, W.cyc[c].lastError>>, c)], c)

\* the simulated streaming of a non-streaming answer: one turn of
\* for (i = 0; i < fullResponse.length; i += chunkSize), up to its await
SynthLoop(W, c) ==
  LET cy == W.cyc[c] IN
  IF cy.i < Len(cy.fullResponse)
  THEN [broadcastSSEChunk(W, c, Slice(cy.fullResponse, cy.i, cy.i + chunkSize),
                          cy.ord + 1)
          EXCEPT !.cyc[c].i = @ + chunkSize, !.cyc[c].ord = @ + 1,
                 !.cyc[c].pc = "synth"]
  ELSE Finish(W, c)

\* after generateResponse returned text in the branch without streaming
AfterRegular(W, c, text) ==
  LET W1 == [W EXCEPT !.cyc[c].fullResponse = text, !.cyc[c].i = 0] IN
  IF text # << >> /\ CurrentLength(W1, c) > 0 THEN SynthLoop(W1, c) ELSE Finish(W1, c)

\* after generateResponse returned text in the catch of the streaming call
AfterFallback(W, c, text) ==
  LET W1 == [W EXCEPT !.cyc[c].fullResponse = text] IN
  IF text # << >> /\ CurrentLength(W1, c) > 0
  THEN Finish(broadcastSSEChunk(W1, c, text, W1.cyc[c].ord + 1), c)
  ELSE Finish(W1, c)

\* generateStreamingResponse threw: catch at index.js 628 awaits generateResponse
StreamThrows(W, c, cause) ==
  [W EXCEPT !.cyc[c].pc = "fallback", !.cyc[c].path = "fallback"]

\* catch of one endpoint attempt of generateOllamaStreamingResponse
AttemptFails(W, c, cause) ==
  IF W.cyc[c].ep = Len(getOllamaEndpoints(W.cyc[c].endpoint))
  THEN StreamThrows(W, c, cause)
  ELSE [W EXCEPT !.cyc[c].pc = "retry"]

\* for (const line of lines): lines of one read, from line j on
RECURSIVE ForEachLine(_, _, _, _, _)
ForEachLine(W, c, lines, j, base) ==
  IF j > Len(lines) THEN W
  ELSE IF lines[j] = Skipped THEN ForEachLine(W, c, lines, j + 1, base)
  ELSE ForEachLine(
         [broadcastSSEChunk(W, c, <<lines[j]>>, base + j)
            EXCEPT !.cyc[c].acc = @ \o <<lines[j]>>],
         c, lines, j + 1, base)

\* variant of the loop above that walks the lines of a read last to first
RECURSIVE ForEachLineBackwards(_, _, _, _, _)
ForEachLineBackwards(W, c, lines, j, base) ==
  IF j < 1 THEN W
  ELSE IF lines[j] = Skipped THEN ForEachLineBackwards(W, c, lines, j - 1, base)
  ELSE ForEachLineBackwards(
         [broadcastSSEChunk(W, c, <<lines[j]>>, base + j)
            EXCEPT !.cyc[c].acc = @ \o <<lines[j]>>],
         c, lines, j - 1, base)

DecodeReadBackwards(W, c, lines) ==
  [ForEachLineBackwards(W, c, lines, Len(lines), W.cyc[c].ord)
     EXCEPT !.cyc[c].nLines = @ + Len(lines), !.cyc[c].ord = @ + Len(lines)]

\* one read of the streaming body: decode its lines in order, append each
\* fragment to fullResponse and hand it to onChunk
DecodeRead(W, c, lines) ==
  [ForEachLine(W, c, lines, 1, W.cyc[c].ord)
     EXCEPT !.cyc[c].nLines = @ + Len(lines), !.cyc[c].ord = @ + Len(lines)]

\* the streaming body ended: return fullResponse || 'Keine Antwort erhalten'
StreamReturns(W, c) ==
  LET acc == W.cyc[c].acc
      text == IF acc = << >> THEN NoAnswer ELSE acc
  IN  Finish([W EXCEPT !.cyc[c].fullResponse = text], c)

\* one turn of the word loop of generateDemoStreamingResponse, up to its await
DemoWord(W, c) ==
  [broadcastSSEChunk(W, c, <<Visible>>, W.cyc[c].ord + 1)
     EXCEPT !.cyc[c].acc = @ \o <<Visible>>, !.cyc[c].ord = @ + 1,
            !.cyc[c].pc = "demo", !.cyc[c].path = "stream"]

\* generateStreamingResponse, up to the first await of the provider client
EnterStreaming(W, c) ==
  LET cy == W.cyc[c] IN
  CASE cy.provider = "ollama" ->
         [W EXCEPT !.cyc[c].pc = "fetch", !.cyc[c].ep = 1, !.cyc[c].path = "stream"]
    [] cy.provider = "openai" ->
         IF cy.apiKey
         THEN [W EXCEPT !.cyc[c].pc = "fetch", !.cyc[c].ep = 1, !.cyc[c].path = "stream"]
         ELSE Catch(W, c, "OpenAI API key is required")
    [] cy.provider = "demo" -> DemoWord(W, c)
    [] OTHER -> Catch(W, c, "Unsupported AI provider")

\* generateResponse in the branch without streaming, up to its first await
EnterRegular(W, c) ==
  LET cy == W.cyc[c] IN
  CASE cy.provider = "ollama" ->
         [W EXCEPT !.cyc[c].pc = "regular", !.cyc[c].path = "regular"]
    [] cy.provider = "openai" ->
         IF cy.apiKey
         THEN [W EXCEPT !.cyc[c].pc = "regular", !.cyc[c].path = "regular"]
         ELSE Catch(W, c, "OpenAI API key is required")
    [] cy.provider = "demo" ->
         AfterRegular([W EXCEPT !.cyc[c].path = "regular"], c, <<Visible>>)
    [] OTHER -> Catch(W, c, "Unsupported AI provider")

\* ----------------------------------------------------------------- inputs
\* the row of ai_connections the cycle resolves: provider and config
ConnConfigs ==
  {[provider |-> "ollama", endpoint |-> "localhost", apiKey |-> FALSE],
   [provider |-> "ollama", endpoint |-> "ollama-host", apiKey |-> FALSE],
   [provider |-> "openai", endpoint |-> "none", apiKey |-> TRUE],
   [provider |-> "openai", endpoint |-> "none", apiKey |-> FALSE],
   [provider |-> "demo", endpoint |-> "none", apiKey |-> FALSE],
   [provider |-> "other", endpoint |-> "none", apiKey |-> FALSE]}

\* how a fetch can fail: timeout, refused connection, non-2xx answer
FetchErrors == {"AbortError", "ECONNREFUSED", "API error"}

\* what generateResponse can throw
GenErrors == {"Cannot connect"}

\* data.message?.content || 'Keine Antwort erhalten'
AnswerText(content) == IF content = << >> THEN NoAnswer ELSE content

\* the bodies one read can deliver: 1..n lines
ReadsUpTo(n) == UNION {[1..k -> LineKinds] : k \in 1..n}

\* lines the upstreams may still send
RECURSIVE LinesUsed(_)
LinesUsed(c) == IF c = 0 THEN 0 ELSE cycle[c].nLines + LinesUsed(c - 1)
LinesLeft == MaxLines - LinesUsed(MaxCycles)

\* the read loop of a streaming provider call: the bytes of the body not
\* yet read (rest), the reads so far, fullResponse, what onChunk was handed
\* (emitted), whether an error left the loop (raised), the value returned;
\* history: body is the whole body, doneSeen tells that the loop has met
\* the done signal of its provider, late counts the fragments handed to
\* onChunk after that
IdleDec ==
  [pc |-> "idle", provider |-> "none", body |-> << >>, rest |-> << >>,
   reads |-> 0, fullResponse |-> << >>, emitted |-> << >>, raised |-> FALSE,
   returned |-> << >>, doneSeen |-> FALSE, late |-> 0]

\* table ai_connections twice: store A and store B get the same requests
\* but for the API keys in them; respA and respB are the bodies of the last
\* answer of each, status its status; now is the clock of datetime('now'),
\* in seconds.  Of one generation cycle over store A: its position pc, the
\* aiConnectionId it was called with (asked, 0 for none), the id of the row
\* it resolved (used, 0 for none) and the error it rejected with; history:
\* seen is store A as the SELECT of the cycle found it
IdleAi ==
  [storeA |-> << >>, storeB |-> << >>, respA |-> << >>, respB |-> << >>,
   status |-> 0, now |-> 0, pc |-> "idle", asked |-> 0, used |-> 0,
   error |-> "none", seen |-> << >>]

\* the endpoint loop of generateOllamaResponse (mode regular) or of
\* generateOllamaStreamingResponse (mode streaming): the candidate list,
\* the position i in it, lastError, the error thrown to the caller;
\* history: the endpoints contacted and how each attempt ended
NoError == [name |-> "none", message |-> "none"]
IdleClient ==
  [pc |-> "idle", mode |-> "none", endpoints |-> << >>, i |-> 0,
   lastError |-> NoError, thrown |-> NoError, contacted |-> << >>,
   ended |-> << >>]

\* one mounted useSSE hook with streaming enabled: eventSourceRef.current
\* (ref, 0 for null; the EventSource objects are numbered as created), the
\* number of objects created, the objects closed, the timers that
\* setTimeout holds; history: relies is the object that the subscription
\* of the generation under way rests on (0 when none is under way), each
\* timer remembers the object whose event set it
IdleHook ==
  [ref |-> 0, created |-> 0, closed |-> {}, timers |-> {}, sends |-> 0,
   relies |-> 0]

\* an HTTP request: the locals its handler keeps across its callbacks
\* (user, conversationId, role, stream), its position pc, and the answer it
\* sent (status, and of the body: streaming, lastID, list).  numeric is
\* history: the id of the path was a decimal number.
\* credential is history too: the request carried no token, a bad one or
\* a good one.
IdleReq ==
  [op |-> "none", pc |-> "idle", user |-> 0, conversationId |-> 0,
   numeric |-> TRUE, credential |-> "none", role |-> "none", stream |-> FALSE,
   status |-> 0, streaming |-> FALSE, lastID |-> 0, list |-> {}, blank |-> FALSE]

\* ------------------------------------------------------------------ state
\* the conversations of Convs exist and belong to user 1, who holds the
\* token the subscribers and the senders use
Init ==
  /\ sseConnections = << >>
  /\ sinkSt = [s \in Sinks |-> "new"]
  /\ sinkConv = [s \in Sinks |-> 0]
  /\ sinkLog = [s \in Sinks |-> << >>]
  /\ messages = << >>
  /\ cycle = [c \in Cycles |-> IdleCycle]
  /\ faults = 0
  /\ conversations = [k \in Convs |-> 1]
  /\ reqs = [r \in Reqs |-> IdleReq]
  /\ dec = IdleDec
  /\ ai = IdleAi
  /\ client = IdleClient
  /\ hook = IdleHook

\* a step without a failure, and a step that is one
NoFault == faults' = faults
Fault == faults < MaxFaults /\ faults' = faults + 1

\* ------------------------------------------------------------ subscribers
\* GET /api/conversations/:id/stream, after the credential and the
\* conversation were found: send "connected", register res.  first is the
\* connected event as the log keeps it.
Register(conv, first) ==
  \E s \in Sinks :
    /\ sinkSt[s] = "new"
    /\ \A t \in 1..(s - 1) : sinkSt[t] # "new"
    /\ sinkSt' = [sinkSt EXCEPT ![s] = "open"]
    /\ sinkConv' = [sinkConv EXCEPT ![s] = conv]
    /\ sinkLog' = [sinkLog EXCEPT ![s] = <<first>>]
    /\ sseConnections' = Put(sseConnections, conv, Append(Get(sseConnections, conv), s))
    /\ UNCHANGED <<messages, cycle, faults>>

Subscribe(conv) == Register(conv, Connected) /\ UNCHANGED outer

\* history: the cycles of conv that have started and have not yet broadcast
\* their terminal event, each with the number of chunks it has broadcast
Running(conv) ==
  LET cs == {c \in Cycles : /\ cycle[c].conv = conv
                            /\ cycle[c].pc \notin {"idle", "done"}
                            /\ cycle[c].terminals = 0}
  IN  [c \in cs |-> cycle[c].ord]

\* Subscribe with a log that remembers what was running at registration
SubscribeDuring(conv) ==
  Register(conv, Connected @@ [during |-> Running(conv)]) /\ UNCHANGED outer

\* the socket of res goes away; its close event has not been handled yet
Break(s) ==
  /\ sinkSt[s] = "open"
  /\ sinkSt' = [sinkSt EXCEPT ![s] = "broken"]
  /\ sinkLog' = [sinkLog EXCEPT ![s] = << >>]
  /\ Fault
  /\ UNCHANGED <<sseConnections, sinkConv, messages, cycle, outer>>

\* variant of cleanup that also ends the calls of a conversation whose
\* last subscriber has gone
cleanupAborts(s) ==
  LET conv == sinkConv[s]
      connections == Get(sseConnections, conv)
      index == IndexOf(connections, s)
      after == IF index > 0 THEN RemoveAt(connections, index) ELSE connections
  IN
  /\ sinkSt[s] \in {"open", "broken", "closed"}
  /\ sinkSt' = [sinkSt EXCEPT ![s] = "closed"]
  /\ sseConnections' =
       IF Len(after) = 0 THEN Delete(sseConnections, conv)
       ELSE Put(sseConnections, conv, after)
  /\ sinkLog' = [sinkLog EXCEPT ![s] = << >>]
  /\ cycle' = [c \in Cycles |->
       IF cycle[c].conv = conv /\ Len(after) = 0
       THEN IF cycle[c].pc \in {"idle", "done"}
            THEN [cycle[c] EXCEPT !.curLive = FALSE]
            ELSE Return(World, c).cyc[c]
       ELSE cycle[c]]
  /\ UNCHANGED <<sinkConv, messages, faults, outer>>

\* variant of cleanup without the test of index: splice(-1, 1) takes the
\* last element of the array
cleanupSplices(s) ==
  LET conv == sinkConv[s]
      connections == Get(sseConnections, conv)
      index == IndexOf(connections, s)
      after == IF index > 0 THEN RemoveAt(connections, index)
               ELSE IF connections # << >> THEN RemoveAt(connections, Len(connections))
               ELSE connections
  IN
  /\ sinkSt[s] \in {"open", "broken", "closed"}
  /\ sinkSt' = [sinkSt EXCEPT ![s] = "closed"]
  /\ sseConnections' =
       IF Len(after) = 0 THEN Delete(sseConnections, conv)
       ELSE Put(sseConnections, conv, after)
  /\ sinkLog' = [sinkLog EXCEPT ![s] = << >>]
  /\ cycle' = [c \in Cycles |->
       IF cycle[c].conv = conv /\ Len(after) = 0
       THEN [cycle[c] EXCEPT !.curLive = FALSE] ELSE cycle[c]]
  /\ UNCHANGED <<sinkConv, messages, faults, outer>>

\* cleanup of one res; close, aborted and error can each call it
cleanup(s) ==
  LET conv == sinkConv[s]
      connections == Get(sseConnections, conv)
      index == IndexOf(connections, s)
      after == IF index > 0 THEN RemoveAt(connections, index) ELSE connections
  IN
  /\ sinkSt[s] \in {"open", "broken", "closed"}
  /\ sinkSt' = [sinkSt EXCEPT ![s] = "closed"]
  /\ sseConnections' =
       IF Len(after) = 0 THEN Delete(sseConnections, conv)
       ELSE Put(sseConnections, conv, after)
  /\ sinkLog' = [sinkLog EXCEPT ![s] = << >>]
  /\ cycle' = [c \in Cycles |->
       IF cycle[c].conv = conv /\ Len(after) = 0
       THEN [cycle[c] EXCEPT !.curLive = FALSE] ELSE cycle[c]]
  /\ UNCHANGED <<sinkConv, messages, faults, outer>>

\* ------------------------------------------------------------ send-message
\* POST /api/conversations/:id/messages with role user: insert the user
\* message, answer the request, arm the 500 ms timer
SendMessage(conv) ==
  \E c \in Cycles :
    /\ cycle[c].pc = "idle"
    /\ \A d \in 1..(c - 1) : cycle[d].pc # "idle"
    /\ messages' = Insert(messages, conv, "user", <<Visible>>, 0)
    /\ cycle' = [cycle EXCEPT ![c] = [IdleCycle EXCEPT !.pc = "timer", !.conv = conv]]
    /\ UNCHANGED <<sseConnections, sinkSt, sinkConv, sinkLog, faults, outer>>

\* ----------------------------------------- generateStreamingAIResponse
Step(c, W) == Apply(W) /\ UNCHANGED <<sinkSt, sinkConv, outer>>

\* variant of the step below in which a call waits for the calls that are
\* under way to end
StartWhenQuiet(c) ==
  /\ cycle[c].pc = "timer"
  /\ \A d \in Cycles \ {c} : cycle[d].pc \in {"idle", "timer", "done"}
  /\ NoFault
  /\ Step(c, [World EXCEPT !.cyc[c].pc =
       IF Len(Get(sseConnections, cycle[c].conv)) = 0 THEN "wait" ELSE "getConn"])

\* the timer fires: look for subscribers, wait 2 s when there is none
Start(c) ==
  /\ cycle[c].pc = "timer"
  /\ NoFault
  /\ Step(c, [World EXCEPT !.cyc[c].pc =
       IF Len(Get(sseConnections, cycle[c].conv)) = 0 THEN "wait" ELSE "getConn"])

\* variant of the step below that returns when the wait found no subscriber
AfterWaitGivesUp(c) ==
  /\ cycle[c].pc = "wait"
  /\ NoFault
  /\ Step(c, IF Len(Get(sseConnections, cycle[c].conv)) = 0
             THEN Return(World, c)
             ELSE [World EXCEPT !.cyc[c].pc = "getConn"])

\* the 2 s wait is over: go on with or without subscribers
AfterWait(c) ==
  /\ cycle[c].pc = "wait"
  /\ NoFault
  /\ Step(c, [World EXCEPT !.cyc[c].pc = "getConn"])

\* variant of the step below that answers with the demo provider when no
\* connection is configured
NoConnectionDemo(W, c, asked) ==
  [W EXCEPT !.cyc[c].aiConnection = "none", !.cyc[c].asked = asked,
            !.cyc[c].provider = "demo", !.cyc[c].pc = "getHist"]

\* the SELECT found no row: reject with the error of the SELECT that ran
NoConnection(W, c, asked) ==
  Catch([W EXCEPT !.cyc[c].aiConnection = "none", !.cyc[c].asked = asked], c,
        IF asked = "byId" THEN NotFoundOrInactive ELSE NoActiveConnection)

\* the SELECT of the AI connection answers: by id when the request named
\* one (aiConnectionId), else the latest active one; the row is one of
\* the given ones
GotConnOf(c, configs) ==
  /\ cycle[c].pc = "getConn"
  /\ NoFault
  /\ \/ \E k \in configs :
          Step(c, [World EXCEPT !.cyc[c].provider = k.provider,
                                !.cyc[c].endpoint = k.endpoint,
                                !.cyc[c].apiKey = k.apiKey,
                                !.cyc[c].aiConnection = "row",
                                !.cyc[c].pc = "getHist"])
     \/ \E asked \in {"byId", "latest"} : Step(c, NoConnection(World, c, asked))

GotConn(c) == GotConnOf(c, ConnConfigs)

\* the SELECT of the history answers; currentConnections and useStreaming
GotHistory(c) ==
  /\ cycle[c].pc = "getHist"
  /\ \/ LET conv == cycle[c].conv
            W1 == [World EXCEPT !.cyc[c].curLive = (conv \in DOMAIN sseConnections)]
        IN  /\ NoFault
            /\ Step(c, IF Len(Get(sseConnections, conv)) > 0
                       THEN EnterStreaming(W1, c) ELSE EnterRegular(W1, c))
     \/ Fault /\ Step(c, Catch(World, c, "database error"))

StreamFails(W, c, cause) ==
  IF W.cyc[c].provider = "ollama" THEN AttemptFails(W, c, cause)
  ELSE StreamThrows(W, c, cause)

\* the fetch of the streaming request answers
Fetch(c) ==
  /\ cycle[c].pc = "fetch"
  /\ \/ NoFault /\ Step(c, [World EXCEPT !.cyc[c].pc = "read", !.cyc[c].acc = << >>])
     \/ \E cause \in FetchErrors : Fault /\ Step(c, StreamFails(World, c, cause))

\* the 100 ms pause before the next endpoint is over
Retry(c) ==
  /\ cycle[c].pc = "retry"
  /\ NoFault
  /\ Step(c, [World EXCEPT !.cyc[c].pc = "fetch", !.cyc[c].ep = @ + 1])

\* reader.read() answers
Read(c) ==
  /\ cycle[c].pc = "read"
  /\ \/ NoFault /\ Step(c, StreamReturns(World, c))
     \/ \E lines \in ReadsUpTo(LinesLeft) :
          NoFault /\ Step(c, DecodeRead(World, c, lines))
     \/ Fault /\ Step(c, StreamFails(World, c, "read failed"))

\* the pause after a word of the demo stream is over
DemoTick(c) ==
  /\ cycle[c].pc = "demo"
  /\ NoFault
  /\ \/ /\ LinesLeft > 0
        /\ Step(c, DemoWord([World EXCEPT !.cyc[c].nLines = @ + 1], c))
     \/ Step(c, Finish([World EXCEPT !.cyc[c].fullResponse = cycle[c].acc], c))

\* generateResponse answers in the catch of the streaming call, with one
\* of the given answers
FallbackOf(c, answers) ==
  /\ cycle[c].pc = "fallback"
  /\ \/ \E x \in answers : NoFault /\ Step(c, AfterFallback(World, c, AnswerText(x)))
     \/ \E cause \in GenErrors : Fault /\ Step(c, Catch(World, c, cause))

Fallback(c) == FallbackOf(c, Answers)

\* generateResponse answers in the branch without streaming, with one of
\* the given answers
RegularOf(c, answers) ==
  /\ cycle[c].pc = "regular"
  /\ \/ \E x \in answers : NoFault /\ Step(c, AfterRegular(World, c, AnswerText(x)))
     \/ \E cause \in GenErrors : Fault /\ Step(c, Catch(World, c, cause))

Regular(c) == RegularOf(c, Answers)

\* the 50 ms pause of the simulated streaming is over
SynthTick(c) ==
  /\ cycle[c].pc = "synth"
  /\ NoFault
  /\ Step(c, SynthLoop(World, c))

Save(c) ==
  /\ cycle[c].pc = "save"
  /\ \E err \in BOOLEAN :
       /\ IF err THEN Fault ELSE NoFault
       /\ Step(c, SaveCallback(World, c, err))

SaveErr(c) ==
  /\ cycle[c].pc = "saveErr"
  /\ \E err \in BOOLEAN :
       /\ IF err THEN Fault ELSE NoFault
       /\ Step(c, SaveErrCallback(World, c, err))

CycleStep(c) ==
  \/ Start(c) \/ AfterWait(c) \/ GotConn(c) \/ GotHistory(c) \/ Fetch(c)
  \/ Retry(c) \/ Read(c) \/ DemoTick(c) \/ Fallback(c) \/ Regular(c)
  \/ SynthTick(c) \/ Save(c) \/ SaveErr(c)

Next ==
  \/ \E conv \in Convs : Subscribe(conv)
  \/ \E s \in Sinks : Break(s)
  \/ \E s \in Sinks : cleanup(s)
  \/ \E conv \in Convs : SendMessage(conv)
  \/ \E c \in Cycles : CycleStep(c)

Spec == Init /\ [][Next]_vars

\* the same server, its subscriber logs keeping the history of Running
\* answers of generateResponse around the chunk size of the simulated
\* streaming: one character less, one more, and up to MaxPieces pieces
LongAnswers ==
  {[k \in 1..n |-> Visible] :
     n \in {chunkSize - 1} \cup {p * chunkSize + 1 : p \in 1..(MaxPieces - 1)}}

\* the cycles whose generateResponse gives a long answer; their streaming
\* call is not followed beyond its fetch
NextSynth ==
  \/ \E conv \in Convs : Subscribe(conv)
  \/ \E conv \in Convs : SendMessage(conv)
  \/ \E c \in Cycles :
       \/ Start(c) \/ AfterWait(c) \/ GotConn(c) \/ GotHistory(c) \/ Fetch(c)
       \/ Retry(c) \/ FallbackOf(c, LongAnswers) \/ RegularOf(c, LongAnswers)
       \/ Save(c) \/ SaveErr(c)

SpecSynth == Init /\ [][NextSynth]_vars

\* the streaming core with more than one conversation, all of them
\* answered by one openai connection
Rooms == 1..NRooms

RoomConfigs == {k \in ConnConfigs : k.provider = "openai" /\ k.apiKey}

\* a continuation of call c runs: a timer, a database callback, or the
\* answer of the upstream, generateResponse giving one of the answers
RoomStepOf(c, answers) ==
  \/ Start(c) \/ AfterWait(c) \/ GotConnOf(c, RoomConfigs) \/ GotHistory(c)
  \/ Fetch(c) \/ Read(c) \/ FallbackOf(c, answers) \/ RegularOf(c, answers)
  \/ Save(c) \/ SaveErr(c)

RoomStep(c) == RoomStepOf(c, Answers)

NextRooms ==
  \/ \E conv \in Rooms : Subscribe(conv)
  \/ \E s \in Sinks : Break(s)
  \/ \E s \in Sinks : cleanup(s)
  \/ \E conv \in Rooms : SendMessage(conv)
  \/ \E c \in Cycles : RoomStep(c) \/ SynthTick(c)

\* the conversations without disconnects, each with at most one subscriber
\* and one message, conversation 1 first; the event loop runs every
\* continuation of the last call that is ready, and is promised nothing
\* about the other calls: their timers, database and upstream may never
\* answer
Last == MaxCycles

BusyStep(c) == RoomStepOf(c, {<<Visible>>})

NextBusy ==
  \/ \E conv \in Rooms \cap Sinks : sinkSt[conv] = "new" /\ Subscribe(conv)
  \/ \E conv \in Rooms \cap Cycles : cycle[conv].pc = "idle" /\ SendMessage(conv)
  \/ \E c \in Cycles : BusyStep(c)

SpecBusy == Init /\ [][NextBusy]_vars /\ WF_vars(BusyStep(Last))

SpecRooms == Init /\ [][NextRooms]_vars

NextDuring ==
  \/ \E conv \in Convs : SubscribeDuring(conv)
  \/ \E s \in Sinks : Break(s)
  \/ \E s \in Sinks : cleanup(s)
  \/ \E conv \in Convs : SendMessage(conv)
  \/ \E c \in Cycles : CycleStep(c)

SpecDuring == Init /\ [][NextDuring]_vars

\* ------------------------------------------------------------- HTTP routes
\* A token is << >> when the request carries none, <<u>> when it is the
\* valid token of user u, <<0>> when it is anything else.
Tokens == {<< >>, <<0>>} \cup {<<u>> : u \in Users}

\* auth.verifyToken(token): the payload of a valid token (its user); it
\* throws for anything else, undefined included
Thrown == 0
verifyToken(token) ==
  IF token # << >> /\ token[1] \in Users THEN token[1] ELSE Thrown

\* history: what the request carried
Credential(token) ==
  IF token = << >> THEN "none"
  ELSE IF verifyToken(token) = Thrown THEN "bad" ELSE "ok"

\* const user = auth.verifyToken(token) in a route without try: the throw
\* reaches the error middleware, which answers 500; a payload is never
\* falsy, so the 401 of the line below it is never sent
Unverified == 500

\* parseInt(req.params.id): the number of the leading digits of the text,
\* NaN when it starts with none
NaN == -1
Digits == {"0", "1", "2", "3", "4", "5", "6", "7", "8", "9"}
DigitValue(d) ==
  CASE d = "0" -> 0 [] d = "1" -> 1 [] d = "2" -> 2 [] d = "3" -> 3 [] d = "4" -> 4
    [] d = "5" -> 5 [] d = "6" -> 6 [] d = "7" -> 7 [] d = "8" -> 8 [] d = "9" -> 9

RECURSIVE LeadingDigits(_, _)
LeadingDigits(text, acc) ==
  IF text = << >> \/ Head(text) \notin Digits THEN acc
  ELSE LeadingDigits(Tail(text), 10 * acc + DigitValue(Head(text)))

parseInt(text) ==
  IF text = << >> \/ Head(text) \notin Digits THEN NaN ELSE LeadingDigits(text, 0)

\* history: the text is a decimal number
IsNumeric(text) == text # << >> /\ \A k \in 1..Len(text) : text[k] \in Digits

\* the ids a path can carry
PathIds == {<<"1">>, <<"1", "x">>, <<"x">>}

\* variant of the SELECT below without its user_id
OwnedRowAnyUser(conversationId, user) ==
  /\ conversationId \in 1..Len(conversations)
  /\ conversations[conversationId] # 0

\* SELECT * FROM conversations WHERE id = ? AND user_id = ?
OwnedRow(conversationId, user) ==
  /\ conversationId \in 1..Len(conversations)
  /\ conversations[conversationId] = user

\* the request r has not arrived yet and is the next to arrive
NewReq(r) ==
  /\ reqs[r].pc = "idle"
  /\ \A q \in 1..(r - 1) : reqs[q].pc # "idle"
  /\ Cardinality({q \in Reqs : reqs[q].pc \notin {"idle", "done", "gone"}}) < MaxInFlight

\* res.status(status).json(..): the handler is over; who asked and for
\* which conversation is kept as history
Answer(r, status) ==
  [IdleReq EXCEPT !.op = reqs[r].op, !.pc = "done", !.status = status,
                  !.user = reqs[r].user, !.conversationId = reqs[r].conversationId,
                  !.numeric = reqs[r].numeric, !.credential = reqs[r].credential,
                  !.role = reqs[r].role, !.blank = reqs[r].blank]

\* the handler of r moves on to next; of the answers sent only the last is
\* kept, an earlier one is gone
GoneReq == [IdleReq EXCEPT !.pc = "gone"]
Handle(r, next) ==
  reqs' = [q \in Reqs |->
             IF q = r THEN next
             ELSE IF reqs[q].pc = "done" THEN GoneReq ELSE reqs[q]]

\* the answer of a handler that ends in its first slice
Refuse(op, status, numeric, credential) ==
  [IdleReq EXCEPT !.op = op, !.pc = "done", !.status = status,
                  !.numeric = numeric, !.credential = credential]

core == <<sseConnections, sinkSt, sinkConv, sinkLog, cycle, dec, ai, client, hook>>

\* POST /api/conversations
CreateConversation(r) ==
  /\ NewReq(r)
  /\ \E token \in Tokens :
       LET user == verifyToken(token) IN
       Handle(r,
         IF user = Thrown THEN Refuse("create", Unverified, TRUE, Credential(token))
         ELSE [IdleReq EXCEPT !.op = "create", !.pc = "insert", !.user = user,
                              !.credential = "ok"])
  /\ UNCHANGED <<core, messages, conversations, faults>>

\* callback of INSERT INTO conversations
CreateInserted(r) ==
  /\ reqs[r].op = "create" /\ reqs[r].pc = "insert"
  /\ \/ /\ Fault
        /\ Handle(r, Answer(r, 500))
        /\ UNCHANGED conversations
     \/ /\ NoFault
        /\ Len(conversations) < MaxRows
        /\ conversations' = Append(conversations, reqs[r].user)
        /\ Handle(r,
             [Answer(r, 201) EXCEPT !.lastID = Len(conversations) + 1])
  /\ UNCHANGED <<core, messages>>

\* GET /api/conversations
ListConversations(r) ==
  /\ NewReq(r)
  /\ \E token \in Tokens :
       LET user == verifyToken(token) IN
       Handle(r,
         IF user = Thrown THEN Refuse("list", Unverified, TRUE, Credential(token))
         ELSE [IdleReq EXCEPT !.op = "list", !.pc = "select", !.user = user,
                              !.credential = "ok"])
  /\ UNCHANGED <<core, messages, conversations, faults>>

\* callback of the SELECT of the list (its LIMIT 20 is above MaxRows)
ListSelected(r) ==
  /\ reqs[r].op = "list" /\ reqs[r].pc = "select"
  /\ \/ Fault /\ Handle(r, Answer(r, 500))
     \/ /\ NoFault
        /\ Handle(r,
             [Answer(r, 200) EXCEPT !.list =
                {k \in 1..Len(conversations) : conversations[k] = reqs[r].user}])
  /\ UNCHANGED <<core, messages, conversations>>

\* GET /api/conversations/:id and GET /api/conversations/:id/messages
GetConversation(r) ==
  /\ NewReq(r)
  /\ \E token \in Tokens, id \in PathIds :
       LET user == verifyToken(token) IN
       Handle(r,
         IF user = Thrown
         THEN Refuse("get", Unverified, IsNumeric(id), Credential(token))
         ELSE [IdleReq EXCEPT !.op = "get", !.pc = "check", !.user = user,
                              !.conversationId = parseInt(id),
                              !.numeric = IsNumeric(id), !.credential = "ok"])
  /\ UNCHANGED <<core, messages, conversations, faults>>

\* callback of the SELECT of the conversation
GetChecked(r) ==
  /\ reqs[r].op = "get" /\ reqs[r].pc = "check"
  /\ \/ Fault /\ Handle(r, Answer(r, 500))
     \/ /\ NoFault
        /\ Handle(r,
             IF OwnedRow(reqs[r].conversationId, reqs[r].user)
             THEN [reqs[r] EXCEPT !.pc = "rows"] ELSE Answer(r, 404))
  /\ UNCHANGED <<core, messages, conversations>>

\* callback of the SELECT of the messages
GetRows(r) ==
  /\ reqs[r].op = "get" /\ reqs[r].pc = "rows"
  /\ \/ Fault /\ Handle(r, Answer(r, 500))
     \/ NoFault /\ Handle(r, Answer(r, 200))
  /\ UNCHANGED <<core, messages, conversations>>

\* what a send-message body can carry (role and stream default to 'user'
\* and true when the body has none)
Contents == {<< >>, <<Blank>>, <<Visible>>}
Roles == {"user", "assistant", "system", "bogus"}

\* POST /api/conversations/:id/messages, up to the SELECT of the conversation
PostMessage(r) ==
  /\ NewReq(r)
  /\ \E token \in Tokens, id \in PathIds, content \in Contents,
        role \in Roles, stream \in BOOLEAN :
       LET user == verifyToken(token)
           sent == [role |-> role, blank |-> content \in {<< >>, <<Blank>>}]
       IN
       Handle(r,
         IF user = Thrown
         THEN sent @@ Refuse("post", Unverified, IsNumeric(id), Credential(token))
         ELSE IF IsBlank(content) THEN sent @@ Refuse("post", 400, IsNumeric(id), "ok")
         ELSE IF role \notin {"user", "assistant", "system"}
              THEN sent @@ Refuse("post", 400, IsNumeric(id), "ok")
         ELSE [IdleReq EXCEPT !.op = "post", !.pc = "check", !.user = user,
                              !.conversationId = parseInt(id),
                              !.numeric = IsNumeric(id), !.credential = "ok",
                              !.role = role, !.stream = stream,
                              !.blank = sent.blank])
  /\ UNCHANGED <<core, messages, conversations, faults>>

PostChecked(r) ==
  /\ reqs[r].op = "post" /\ reqs[r].pc = "check"
  /\ \/ Fault /\ Handle(r, Answer(r, 500))
     \/ /\ NoFault
        /\ Handle(r,
             IF OwnedRow(reqs[r].conversationId, reqs[r].user)
             THEN [reqs[r] EXCEPT !.pc = "insert"] ELSE Answer(r, 404))
  /\ UNCHANGED <<core, messages, conversations>>

\* variant of the arming below that calls generateStreamingAIResponse at
\* once, up to its wait for a subscriber
ArmRunning(cyc, conv) ==
  LET c == CHOOSE c \in Cycles :
             cyc[c].pc = "idle" /\ \A d \in 1..(c - 1) : cyc[d].pc # "idle"
  IN  [cyc EXCEPT ![c] = [IdleCycle EXCEPT !.pc = "wait", !.conv = conv]]

\* setTimeout(() => generateStreamingAIResponse(..), 500)
Arm(cyc, conv) ==
  LET c == CHOOSE c \in Cycles :
             cyc[c].pc = "idle" /\ \A d \in 1..(c - 1) : cyc[d].pc # "idle"
  IN  [cyc EXCEPT ![c] = [IdleCycle EXCEPT !.pc = "timer", !.conv = conv]]

\* callback of the INSERT of the message: answer, then arm the timer of
\* the generation when the role is user
PostInserted(r) ==
  LET q == reqs[r] IN
  /\ q.op = "post" /\ q.pc = "insert"
  /\ \/ /\ Fault
        /\ Handle(r, Answer(r, 500))
        /\ UNCHANGED <<messages, cycle>>
     \/ /\ NoFault
        /\ q.role = "user" => \E c \in Cycles : cycle[c].pc = "idle"
        /\ messages' = Insert(messages, q.conversationId, q.role, <<Visible>>, 0)
        /\ Handle(r,
             [Answer(r, 200) EXCEPT !.streaming = (q.stream /\ q.role = "user"),
                                    !.lastID = Len(messages) + 1])
        /\ cycle' = IF q.role = "user" THEN Arm(cycle, q.conversationId) ELSE cycle
  /\ UNCHANGED <<sseConnections, sinkSt, sinkConv, sinkLog, conversations, dec, ai,
                 client, hook>>

\* auth.authenticateToken, then DELETE /api/conversations/:id up to the
\* SELECT of the conversation
DeleteConversation(r) ==
  /\ NewReq(r)
  /\ \E token \in Tokens, id \in PathIds :
       LET conversationId == parseInt(id) IN
       Handle(r,
         IF token = << >> THEN Refuse("delete", 401, IsNumeric(id), "none")
         ELSE IF verifyToken(token) = Thrown
              THEN Refuse("delete", 403, IsNumeric(id), "bad")
         ELSE IF conversationId = 0 \/ conversationId = NaN
              THEN Refuse("delete", 400, IsNumeric(id), "ok")
         ELSE [IdleReq EXCEPT !.op = "delete", !.pc = "check",
                              !.user = verifyToken(token),
                              !.conversationId = conversationId,
                              !.numeric = IsNumeric(id), !.credential = "ok"])
  /\ UNCHANGED <<core, messages, conversations, faults>>

DeleteChecked(r) ==
  /\ reqs[r].op = "delete" /\ reqs[r].pc = "check"
  /\ \/ Fault /\ Handle(r, Answer(r, 500))
     \/ /\ NoFault
        /\ Handle(r,
             IF OwnedRow(reqs[r].conversationId, reqs[r].user)
             THEN [reqs[r] EXCEPT !.pc = "messages"] ELSE Answer(r, 404))
  /\ UNCHANGED <<core, messages, conversations>>

\* DELETE FROM messages WHERE conversation_id = ?  (the table is
\* AUTOINCREMENT: a deleted row leaves its id behind, here as a row of
\* conversation 0)
DeleteMessages(msgs, conversationId) ==
  [k \in 1..Len(msgs) |->
     IF msgs[k].conversation_id = conversationId
     THEN [msgs[k] EXCEPT !.conversation_id = 0] ELSE msgs[k]]

\* callback of the DELETE of the messages
DeleteMessagesDone(r) ==
  /\ reqs[r].op = "delete" /\ reqs[r].pc = "messages"
  /\ \/ /\ Fault
        /\ Handle(r, Answer(r, 500))
        /\ UNCHANGED messages
     \/ /\ NoFault
        /\ messages' = DeleteMessages(messages, reqs[r].conversationId)
        /\ Handle(r, [reqs[r] EXCEPT !.pc = "conversation"])
  /\ UNCHANGED <<core, conversations>>

\* callback of the DELETE of the conversation (a deleted row leaves its id
\* behind, here as a row of user 0)
DeleteConversationDone(r) ==
  /\ reqs[r].op = "delete" /\ reqs[r].pc = "conversation"
  /\ \/ /\ Fault
        /\ Handle(r, Answer(r, 500))
        /\ UNCHANGED conversations
     \/ /\ NoFault
        /\ conversations' = [conversations EXCEPT ![reqs[r].conversationId] = 0]
        /\ Handle(r, Answer(r, 200))
  /\ UNCHANGED <<core, messages>>

\* authenticateTokenFromQuery, then GET /api/conversations/:id/stream up
\* to the SELECT of the conversation
Stream(r) ==
  /\ NewReq(r)
  /\ \E query \in Tokens, header \in Tokens, id \in PathIds :
       LET token == IF query # << >> THEN query ELSE header IN
       Handle(r,
         IF token = << >> THEN Refuse("stream", 401, IsNumeric(id), "none")
         ELSE IF verifyToken(token) = Thrown
              THEN Refuse("stream", 401, IsNumeric(id), "bad")
         ELSE [IdleReq EXCEPT !.op = "stream", !.pc = "check",
                              !.user = verifyToken(token),
                              !.conversationId = parseInt(id),
                              !.numeric = IsNumeric(id), !.credential = "ok"])
  /\ UNCHANGED <<core, messages, conversations, faults>>

\* variant of the callback below that registers res whoever owns the row
StreamCheckedAnyOwner(r) ==
  /\ reqs[r].op = "stream" /\ reqs[r].pc = "check"
  /\ NoFault
  /\ Register(reqs[r].conversationId, Connected)
  /\ Handle(r, Answer(r, 200))
  /\ UNCHANGED <<conversations, dec, ai, client, hook>>

\* callback of the SELECT of the conversation: 404, or the headers, the
\* connected event and the registration of res
StreamChecked(r) ==
  /\ reqs[r].op = "stream" /\ reqs[r].pc = "check"
  /\ \/ /\ Fault
        /\ Handle(r, Answer(r, 404))
        /\ UNCHANGED <<core, messages>>
     \/ /\ NoFault
        /\ ~OwnedRow(reqs[r].conversationId, reqs[r].user)
        /\ Handle(r, Answer(r, 404))
        /\ UNCHANGED <<core, messages>>
     \/ /\ OwnedRow(reqs[r].conversationId, reqs[r].user)
        /\ Register(reqs[r].conversationId, Connected)
        /\ Handle(r, Answer(r, 200))
        /\ UNCHANGED <<dec, ai, client, hook>>
  /\ UNCHANGED conversations

InitApi ==
  /\ sseConnections = << >>
  /\ sinkSt = [s \in Sinks |-> "new"]
  /\ sinkConv = [s \in Sinks |-> 0]
  /\ sinkLog = [s \in Sinks |-> << >>]
  /\ messages = << >>
  /\ cycle = [c \in Cycles |-> IdleCycle]
  /\ faults = 0
  /\ conversations = << >>
  /\ reqs = [r \in Reqs |-> IdleReq]
  /\ dec = IdleDec
  /\ ai = IdleAi
  /\ client = IdleClient
  /\ hook = IdleHook

NextApi ==
  \/ \E r \in Reqs :
       \/ CreateConversation(r) \/ CreateInserted(r)
       \/ ListConversations(r) \/ ListSelected(r)
       \/ GetConversation(r) \/ GetChecked(r) \/ GetRows(r)
       \/ PostMessage(r) \/ PostChecked(r) \/ PostInserted(r)
       \/ DeleteConversation(r) \/ DeleteChecked(r)
       \/ DeleteMessagesDone(r) \/ DeleteConversationDone(r)
       \/ Stream(r) \/ StreamChecked(r)
  \/ \E c \in Cycles : Start(c)

SpecApi == InitApi /\ [][NextApi]_vars

\* conversations created, written to and deleted while the generation of
\* their answers runs to its end; nobody subscribes
NextOrphan ==
  \/ \E r \in Reqs :
       \/ CreateConversation(r) \/ CreateInserted(r)
       \/ PostMessage(r) \/ PostChecked(r) \/ PostInserted(r)
       \/ DeleteConversation(r) \/ DeleteChecked(r)
       \/ DeleteMessagesDone(r) \/ DeleteConversationDone(r)
  \/ \E c \in Cycles :
       \/ Start(c) \/ AfterWait(c) \/ GotConnOf(c, RoomConfigs) \/ GotHistory(c)
       \/ RegularOf(c, {<<Visible>>}) \/ Save(c) \/ SaveErr(c)

SpecOrphan == InitApi /\ [][NextOrphan]_vars

\* ------------------------------------------------- streaming read loops
\* The body of a streaming answer is a sequence of characters.  "{" and "}"
\* open and close the JSON object of a line, the characters between them
\* are its content field, DoneFlag among them is its field done: true;
\* DataPrefix stands for 'data: ' and DoneMark for '[DONE]', each taken as
\* one character.
NewLine == "\n"
Open == "{"
Close == "}"
DataPrefix == "data: "
DoneMark == "[DONE]"
DoneFlag == "done: true"

\* JSON.parse(text) followed by the read of the content field: ok is false
\* when it throws
JSONparse(text) ==
  IF /\ Len(text) >= 2 /\ text[1] = Open /\ text[Len(text)] = Close
     /\ \A k \in 2..(Len(text) - 1) : text[k] \in {Visible, Blank, DoneFlag}
  THEN [ok |-> TRUE,
        content |-> SelectSeq(SubSeq(text, 2, Len(text) - 1),
                              LAMBDA ch : ch # DoneFlag),
        done |-> \E k \in 2..(Len(text) - 1) : text[k] = DoneFlag]
  ELSE [ok |-> FALSE, content |-> << >>, done |-> FALSE]

\* chunk.split('\n')
RECURSIVE Split(_, _)
Split(chunk, line) ==
  IF chunk = << >> THEN <<line>>
  ELSE IF Head(chunk) = NewLine THEN <<line>> \o Split(Tail(chunk), << >>)
  ELSE Split(Tail(chunk), Append(line, Head(chunk)))

\* chunk.split('\n').filter(line => line.trim())
LinesOf(chunk) == SelectSeq(Split(chunk, << >>), LAMBDA line : ~IsBlank(line))

\* fullResponse += content; onChunk(content)
Emit(d, content) ==
  [d EXCEPT !.fullResponse = @ \o content, !.emitted = Append(@, content),
            !.late = IF d.doneSeen THEN @ + 1 ELSE @]

\* history: the line just decoded carried the done signal
Seen(d, done) == [d EXCEPT !.doneSeen = @ \/ done]

\* variant of the loop below without the try around JSON.parse
RECURSIVE OllamaLinesNoCatch(_, _, _)
OllamaLinesNoCatch(d, lines, j) ==
  IF j > Len(lines) THEN d
  ELSE LET data == JSONparse(lines[j]) IN
       IF ~data.ok THEN [d EXCEPT !.raised = TRUE]
       ELSE IF data.content # << >>
            THEN OllamaLinesNoCatch(Emit(d, data.content), lines, j + 1)
            ELSE OllamaLinesNoCatch(d, lines, j + 1)

\* generateOllamaStreamingResponse: for (const line of lines), from line j
RECURSIVE OllamaLines(_, _, _)
OllamaLines(d, lines, j) ==
  IF j > Len(lines) THEN d
  ELSE LET data == JSONparse(lines[j]) IN
       IF data.ok /\ data.content # << >>
       THEN OllamaLines(Seen(Emit(d, data.content), data.done), lines, j + 1)
       ELSE OllamaLines(Seen(d, data.done), lines, j + 1)

\* generateOpenAIStreamingResponse: for (const line of lines), from line j
RECURSIVE OpenAILines(_, _, _)
OpenAILines(d, lines, j) ==
  IF j > Len(lines) THEN d
  ELSE IF Head(lines[j]) # DataPrefix THEN OpenAILines(d, lines, j + 1)
  ELSE LET data == Tail(lines[j]) IN
       IF data = <<DoneMark>> THEN Seen(d, TRUE)
       ELSE LET parsed == JSONparse(data) IN
            IF parsed.ok /\ parsed.content # << >>
            THEN OpenAILines(Emit(d, parsed.content), lines, j + 1)
            ELSE OpenAILines(d, lines, j + 1)

\* one turn of while (true) after reader.read() gave a chunk
DecodeChunk(d, chunk) ==
  IF d.provider = "ollama" THEN OllamaLines(d, LinesOf(chunk), 1)
  ELSE OpenAILines(d, LinesOf(chunk), 1)

\* the lines a body is made of
OllamaTexts ==
  {<<Open, Visible, Close>>, <<Open, Close>>, <<Open, Visible>>, <<Visible, Close>>,
   <<Open, DoneFlag, Close>>}
OpenAITexts ==
  {<<DataPrefix, Open, Visible, Close>>, <<DataPrefix, Open, Visible>>,
   <<Open, Visible, Close>>, <<DataPrefix, DoneMark>>}
LineTexts(provider) == IF provider = "ollama" THEN OllamaTexts ELSE OpenAITexts

\* the body that sends the lines texts, each ended by a newline
RECURSIVE BodyOf(_)
BodyOf(texts) ==
  IF texts = << >> THEN << >>
  ELSE Head(texts) \o <<NewLine>> \o BodyOf(Tail(texts))

Bodies(provider) ==
  {BodyOf(texts) : texts \in UNION {[1..n -> LineTexts(provider)] : n \in 1..MaxBodyLines}}

InitDec ==
  /\ sseConnections = << >>
  /\ sinkSt = [s \in Sinks |-> "new"]
  /\ sinkConv = [s \in Sinks |-> 0]
  /\ sinkLog = [s \in Sinks |-> << >>]
  /\ messages = << >>
  /\ cycle = [c \in Cycles |-> IdleCycle]
  /\ faults = 0
  /\ conversations = << >>
  /\ reqs = [r \in Reqs |-> IdleReq]
  /\ ai = IdleAi
  /\ client = IdleClient
  /\ hook = IdleHook
  /\ \E provider \in {"ollama", "openai"} : \E body \in Bodies(provider) :
       dec = [IdleDec EXCEPT !.pc = "reading", !.provider = provider,
                             !.body = body, !.rest = body]

others == <<sseConnections, sinkSt, sinkConv, sinkLog, messages, cycle, faults,
            conversations, reqs, ai, client, hook>>

\* await reader.read() gives the next n characters of the body
ReadChunk(n) ==
  /\ dec.pc = "reading" /\ ~dec.raised
  /\ n \in 1..Len(dec.rest)
  /\ dec.reads + 1 = MaxReads => n = Len(dec.rest)
  /\ dec' = [DecodeChunk(dec, SubSeq(dec.rest, 1, n)) EXCEPT
               !.rest = SubSeq(dec.rest, n + 1, Len(dec.rest)),
               !.reads = @ + 1]
  /\ UNCHANGED others

\* await reader.read() gives done: return fullResponse || 'Keine Antwort
\* erhalten'
ReadDone ==
  /\ dec.pc = "reading" /\ ~dec.raised
  /\ dec.rest = << >>
  /\ dec' = [dec EXCEPT !.pc = "returned",
               !.returned = IF dec.fullResponse = << >> THEN NoAnswer
                            ELSE dec.fullResponse]
  /\ UNCHANGED others

NextDec ==
  \/ \E n \in 1..MaxBodyChars : ReadChunk(n)
  \/ ReadDone

SpecDec == InitDec /\ [][NextDec]_vars

\* --------------------------------------------------- AI connection routes
\* A config is the object of the request body: a function from its field
\* names to their values.  Its JSON text is the sequence of its fields.
Masked == "***"
Secrets == {"k1", "k2"}
Models == {"m"}

\* the configs a request can carry, as a pair for the two stores: the same
\* config, or two that differ in a key that is not empty
Configs(keys) ==
  {[model |-> m] : m \in Models}
    \cup {[model |-> m, apiKey |-> k] : m \in Models, k \in keys}
TwinConfigs ==
  {<<c, c>> : c \in Configs({""} \cup Secrets)}
    \cup {<<[model |-> m, apiKey |-> j], [model |-> m, apiKey |-> k]>> :
             m \in Models, j \in Secrets, k \in Secrets}

\* JSON.stringify(config)
FieldOrder == <<"apiKey", "model">>
stringify(config) ==
  LET present == SelectSeq(FieldOrder, LAMBDA f : f \in DOMAIN config)
  IN  [k \in 1..Len(present) |-> <<present[k], config[present[k]]>>]

\* JSON.parse(conn.config || '{}')
parse(text) ==
  [f \in {text[k][1] : k \in 1..Len(text)} |->
     (CHOOSE pair \in {text[k] : k \in 1..Len(text)} : pair[1] = f)[2]]

\* variant of the masking below that leaves the key as it is
MaskNothing(config) == config

\* if (config.apiKey) config.apiKey = '***'
Mask(config) ==
  IF "apiKey" \in DOMAIN config /\ config.apiKey # ""
  THEN [config EXCEPT !.apiKey = Masked] ELSE config

\* { ...conn, config }
Format(conn) == [conn EXCEPT !.config = Mask(parse(conn.config))]

\* INSERT INTO ai_connections (.., config, is_active, created_at)
\* VALUES (.., 1, datetime('now'))
InsertConn(store, provider, configJson, now) ==
  Append(store, [id |-> Len(store) + 1, provider |-> provider,
                 config |-> configJson, is_active |-> TRUE, created_at |-> now])

\* SELECT ac.* .. ORDER BY ac.created_at DESC, then the map over the rows
\* (rows are inserted with the clock, which never goes back, so the reverse
\* of the table is such an order; both stores give rows of one second in
\* the same order)
ListOf(store) == [k \in 1..Len(store) |-> Format(store[Len(store) + 1 - k])]

\* GET /api/ai-connections with its db.all callback
ListAiConnections ==
  /\ ai' = [ai EXCEPT !.respA = ListOf(ai.storeA), !.respB = ListOf(ai.storeB),
                      !.status = 200]
  /\ UNCHANGED <<<<sseConnections, sinkSt, sinkConv, sinkLog, cycle, dec, client, hook>>, messages, conversations, faults, reqs>>

\* POST /api/ai-connections with its two database callbacks
CreateAiConnection ==
  /\ Len(ai.storeA) < MaxConns
  /\ \E provider \in {"ollama", "openai"}, twin \in TwinConfigs :
       LET a == InsertConn(ai.storeA, provider, stringify(twin[1]), ai.now)
           b == InsertConn(ai.storeB, provider, stringify(twin[2]), ai.now)
       IN  ai' = [ai EXCEPT !.storeA = a, !.storeB = b,
                            !.respA = <<Format(a[Len(a)])>>,
                            !.respB = <<Format(b[Len(b)])>>, !.status = 200]
  /\ UNCHANGED <<<<sseConnections, sinkSt, sinkConv, sinkLog, cycle, dec, client, hook>>, messages, conversations, faults, reqs>>

\* POST /api/ai-connections without name, provider or config
CreateAiConnectionRefused ==
  /\ ai' = [ai EXCEPT !.respA = << >>, !.respB = << >>, !.status = 400]
  /\ UNCHANGED <<<<sseConnections, sinkSt, sinkConv, sinkLog, cycle, dec, client, hook>>, messages, conversations, faults, reqs>>

InitKeys ==
  /\ sseConnections = << >>
  /\ sinkSt = [s \in Sinks |-> "new"]
  /\ sinkConv = [s \in Sinks |-> 0]
  /\ sinkLog = [s \in Sinks |-> << >>]
  /\ messages = << >>
  /\ cycle = [c \in Cycles |-> IdleCycle]
  /\ faults = 0
  /\ conversations = << >>
  /\ reqs = [r \in Reqs |-> IdleReq]
  /\ dec = IdleDec
  /\ ai = IdleAi
  /\ client = IdleClient
  /\ hook = IdleHook

NextKeys == ListAiConnections \/ CreateAiConnection \/ CreateAiConnectionRefused

SpecKeys == InitKeys /\ [][NextKeys]_vars

\* ------------------------------------------- resolving the AI connection
aside == <<sseConnections, sinkSt, sinkConv, sinkLog, cycle, dec, client, hook,
           messages, conversations, faults, reqs>>

\* a second passes
Tick ==
  /\ ai.now < MaxClock
  /\ ai' = [ai EXCEPT !.now = @ + 1]
  /\ UNCHANGED aside

\* POST /api/ai-connections with a config without key
CreatePlainConnection ==
  /\ Len(ai.storeA) < MaxConns
  /\ \E provider \in {"ollama"}, m \in Models :
       LET a == InsertConn(ai.storeA, provider, stringify([model |-> m]), ai.now)
           b == InsertConn(ai.storeB, provider, stringify([model |-> m]), ai.now)
       IN  ai' = [ai EXCEPT !.storeA = a, !.storeB = b,
                            !.respA = <<Format(a[Len(a)])>>,
                            !.respB = <<Format(b[Len(b)])>>, !.status = 200]
  /\ UNCHANGED aside

\* UPDATE ai_connections SET is_active = ? WHERE id = ?
SetActive(store, id, flag) == [store EXCEPT ![id].is_active = flag]

\* PUT /api/ai-connections/:id with body { is_active }
UpdateActive ==
  /\ \E id \in 1..Len(ai.storeA), flag \in BOOLEAN :
       /\ ai.storeA[id].is_active # flag
       /\ ai' = [ai EXCEPT !.storeA = SetActive(@, id, flag),
                           !.storeB = SetActive(@, id, flag),
                           !.respA = << >>, !.respB = << >>, !.status = 200]
  /\ UNCHANGED aside

\* the rows SELECT .. WHERE is_active = 1 ORDER BY created_at DESC LIMIT 1
\* can give: an active row that no active row is newer than, by the second
LatestActive(store) ==
  {id \in 1..Len(store) :
     /\ store[id].is_active
     /\ \A other \in 1..Len(store) :
          store[other].is_active => store[other].created_at <= store[id].created_at}

\* the rows SELECT .. WHERE id = ? AND is_active = 1 gives
ById(store, aiConnectionId) ==
  {id \in 1..Len(store) : id = aiConnectionId /\ store[id].is_active}

\* generateStreamingAIResponse: "Get AI connection", the callback of its
\* SELECT
ResolveConnection ==
  /\ ai.pc = "idle"
  /\ \E aiConnectionId \in 0..MaxConns :
       LET found == IF aiConnectionId # 0 THEN ById(ai.storeA, aiConnectionId)
                    ELSE LatestActive(ai.storeA)
       IN  \/ /\ found = {}
              /\ ai' = [ai EXCEPT !.pc = "failed", !.asked = aiConnectionId,
                                  !.seen = ai.storeA,
                                  !.error = IF aiConnectionId # 0
                                            THEN NotFoundOrInactive
                                            ELSE NoActiveConnection]
           \/ \E id \in found :
                ai' = [ai EXCEPT !.pc = "resolved", !.asked = aiConnectionId,
                                 !.seen = ai.storeA, !.used = id]
  /\ UNCHANGED aside

\* the history was read: aiService is called with the row resolved
CallProvider ==
  /\ ai.pc = "resolved"
  /\ ai' = [ai EXCEPT !.pc = "generating"]
  /\ UNCHANGED aside

InitResolve == InitKeys

NextResolve ==
  \/ Tick \/ CreatePlainConnection \/ UpdateActive
  \/ ResolveConnection \/ CallProvider

SpecResolve == InitResolve /\ [][NextResolve]_vars

\* ------------------------------------------------------- Ollama client
\* What one attempt can end with: an answer, or an error.  fetch rejects
\* with an AbortError when the timer aborts it and with TypeError 'fetch
\* failed' when the endpoint refuses or cannot be reached; a non-2xx answer
\* makes the code throw 'Ollama API error: ..'.
Timeout == [name |-> "AbortError", message |-> "This operation was aborted"]
Refused == [name |-> "TypeError", message |-> "fetch failed"]
ApiError == [name |-> "Error", message |-> "Ollama API error"]
AttemptErrors == {Timeout, Refused, ApiError}

TimeoutMessage == "Ollama request timeout"
CannotConnect == "Cannot connect to Ollama"

\* variant of the catch below that keeps the first error
KeepFirst(lastError, error) == IF lastError = NoError THEN error ELSE lastError

\* catch (error) { lastError = error; .. }
KeepLast(lastError, error) == error

\* after the loop of generateOllamaResponse: the error thrown
ThrowRegular(lastError) ==
  IF lastError.name = "AbortError"
  THEN [name |-> "Error", message |-> TimeoutMessage]
  ELSE IF lastError.message = "fetch failed"
  THEN [name |-> "Error", message |-> CannotConnect]
  ELSE lastError

\* after the loop of generateOllamaStreamingResponse: throw lastError
ThrowStreaming(lastError) == lastError

InitClient ==
  /\ sseConnections = << >>
  /\ sinkSt = [s \in Sinks |-> "new"]
  /\ sinkConv = [s \in Sinks |-> 0]
  /\ sinkLog = [s \in Sinks |-> << >>]
  /\ messages = << >>
  /\ cycle = [c \in Cycles |-> IdleCycle]
  /\ faults = 0
  /\ conversations = << >>
  /\ reqs = [r \in Reqs |-> IdleReq]
  /\ dec = IdleDec
  /\ ai = IdleAi
  /\ \E mode \in {"regular", "streaming"}, baseEndpoint \in {"localhost", "ollama-host"} :
       client = [IdleClient EXCEPT !.pc = "attempt", !.mode = mode,
                                   !.endpoints = getOllamaEndpoints(baseEndpoint),
                                   !.i = 1]
  /\ hook = IdleHook

beside == <<sseConnections, sinkSt, sinkConv, sinkLog, messages, cycle, faults,
            conversations, reqs, dec, ai, hook>>

\* the attempt at endpoints[i] ends with an answer: return
AttemptReturns ==
  /\ client.pc = "attempt"
  /\ client' = [client EXCEPT !.pc = "returned",
                  !.contacted = Append(@, client.endpoints[client.i]),
                  !.ended = Append(@, "ok")]
  /\ UNCHANGED beside

\* the attempt at endpoints[i] ends in the catch: break and throw at the
\* last endpoint, else start the 100 ms pause
AttemptThrows ==
  /\ client.pc = "attempt"
  /\ \E error \in AttemptErrors :
       LET lastError == KeepLast(client.lastError, error)
           last == client.i = Len(client.endpoints)
       IN  client' = [client EXCEPT
             !.pc = IF last THEN "thrown" ELSE "pause",
             !.lastError = lastError,
             !.thrown = IF ~last THEN NoError
                        ELSE IF client.mode = "regular" THEN ThrowRegular(lastError)
                        ELSE ThrowStreaming(lastError),
             !.contacted = Append(@, client.endpoints[client.i]),
             !.ended = Append(@, error.name \o ": " \o error.message)]
  /\ UNCHANGED beside

\* the pause is over: the loop goes on to the next endpoint
NextEndpoint ==
  /\ client.pc = "pause"
  /\ client' = [client EXCEPT !.pc = "attempt", !.i = @ + 1]
  /\ UNCHANGED beside

NextClient == AttemptReturns \/ AttemptThrows \/ NextEndpoint

SpecClient == InitClient /\ [][NextClient]_vars

\* ------------------------------------------------------- frontend hook
apart == <<sseConnections, sinkSt, sinkConv, sinkLog, messages, cycle, faults,
           conversations, reqs, dec, ai, client>>

\* disconnect: close eventSourceRef.current and set it to null
disconnect(h) ==
  IF h.ref # 0
  THEN [h EXCEPT !.closed = @ \cup {h.ref}, !.ref = 0]
  ELSE h

\* connect: nothing when eventSourceRef.current is set, else a new
\* EventSource becomes current
connect(h) ==
  IF h.ref # 0 THEN h
  ELSE [h EXCEPT !.created = @ + 1, !.ref = h.created + 1]

\* handleSendMessage with streaming: startStreaming(), then the POST; the
\* generation it starts writes to the subscription of the current object
handleSendMessage ==
  /\ hook.sends < MaxSends
  /\ hook.relies = 0
  /\ hook' = [connect(hook) EXCEPT !.sends = @ + 1, !.relies = connect(hook).ref]
  /\ UNCHANGED apart

\* eventSource.onmessage with a complete or an error event: the
\* generation is over, setTimeout(.. disconnect() .., 1000 or 500)
OnTerminal ==
  /\ hook.relies # 0
  /\ hook.relies \notin hook.closed
  /\ \E delay \in {500, 1000} :
       hook' = [hook EXCEPT !.relies = 0,
                  !.timers = @ \cup {[on |-> hook.relies, delay |-> delay,
                                      sends |-> hook.sends]}]
  /\ UNCHANGED apart

\* a timer set by a terminal event fires
TimerFires ==
  /\ \E t \in hook.timers :
       hook' = [disconnect(hook) EXCEPT !.timers = @ \ {t}]
  /\ UNCHANGED apart

\* stopStreaming: the 30 s fallback of App, or its catch of a failed POST
\* (the generation it gave up is awaited no longer)
StopStreaming ==
  /\ hook.relies # 0
  /\ hook' = [disconnect(hook) EXCEPT !.relies = 0]
  /\ UNCHANGED apart

\* eventSource.onerror of the current object: disconnect(); no event of
\* the generation under way arrives any more
OnError ==
  /\ hook.ref # 0
  /\ hook' = [disconnect(hook) EXCEPT !.relies = 0]
  /\ UNCHANGED apart

InitHook == Init

NextHook ==
  handleSendMessage \/ OnTerminal \/ TimerFires \/ StopStreaming \/ OnError

SpecHook == InitHook /\ [][NextHook]_vars

\* ------------------------------------------------------------- properties
\* the call is between the start of the provider request and its last fragment
Generating(c) ==
  cycle[c].pc \in {"fetch", "read", "retry", "demo", "fallback", "regular", "synth"}

InFlight(c) == cycle[c].pc \notin {"idle", "done"}

Terminal == {"complete", "error"}

\* the events of cycle c of the given types that sink s received, in order
EventsOf(s, c, types) ==
  SelectSeq(sinkLog[s], LAMBDA e : e.cyc = c /\ e.type \in types)

ContentsOf(events) == [k \in 1..Len(events) |-> events[k].content]

RegisteredIn(map, conv) == {s \in Sinks : IndexOf(Get(map, conv), s) > 0}

\* the assistant rows cycle c inserted
RowsOf(c) == SelectSeq(messages, LAMBDA m : m.cyc = c /\ m.role = "assistant")

\* C1: at most one generation cycle per conversation is generating at any
\* time; a second send-message for the conversation does not start a
\* concurrent cycle.
C1_OneGeneratingPerConversation ==
  \A c, d \in Cycles :
    (c # d /\ cycle[c].conv = cycle[d].conv /\ Generating(c)) => ~Generating(d)

\* C2: a cycle broadcasts at most one terminal event, complete or error,
\* never both, and no sink receives more than one terminal event of a cycle.
C2_AtMostOneTerminal ==
  \A c \in Cycles :
    /\ cycle[c].terminals <= 1
    /\ \A s \in Sinks : Len(EventsOf(s, c, Terminal)) <= 1

C2_Witness ==
  \E c \in Cycles, s \in Sinks :
    /\ cycle[c].pc = "done" /\ cycle[c].terminals = 1
    /\ Len(EventsOf(s, c, {"chunk"})) >= 1
    /\ Len(EventsOf(s, c, Terminal)) = 1

\* C3: when a cycle broadcasts its terminal event, every subscriber of
\* the conversation that is registered and whose socket is alive receives
\* it, whatever happens to the writes to the other sinks.
C3_TerminalReachesLiveSubscribers ==
  [][\A c \in Cycles :
       cycle'[c].terminals > cycle[c].terminals =>
         \A s \in RegisteredIn(sseConnections, cycle[c].conv) :
           sinkSt[s] = "open" => Len(EventsOf(s, c, Terminal))' >= 1]_vars

\* C4: every subscriber receives the chunk events of a cycle in the order
\* in which the upstream produced the fragments.
C4_ChunkOrderPreserved ==
  \A s \in Sinks, c \in Cycles :
    LET ch == EventsOf(s, c, {"chunk"})
    IN  \A k \in 1..(Len(ch) - 1) : ch[k].ord < ch[k + 1].ord

C4_Witness ==
  \E s \in Sinks, c \in Cycles :
    /\ sinkSt[s] = "open" /\ cycle[c].path = "stream"
    /\ Len(EventsOf(s, c, {"chunk"})) >= 2

\* sink s is alive and received every chunk cycle c broadcast, the first
\* one included: it has been registered and connected all along
ConnectedThroughout(s, c) ==
  /\ sinkSt[s] = "open"
  /\ cycle[c].sent # << >>
  /\ ContentsOf(EventsOf(s, c, {"chunk"})) = cycle[c].sent

\* C5: when a cycle has completed, the content of the assistant message it
\* persisted is the concatenation of the chunk events of the cycle that a
\* subscriber connected throughout received.
C5_PersistedEqualsDelivered ==
  \A c \in Cycles, s \in Sinks :
    (cycle[c].pc = "done" /\ cycle[c].outcome = "complete" /\ ConnectedThroughout(s, c))
      => /\ Len(RowsOf(c)) = 1
         /\ RowsOf(c)[1].content = Concat(ContentsOf(EventsOf(s, c, {"chunk"})))

\* the text the insert that the call has started will write
PendingInsert(cy) ==
  IF cy.pc = "save" THEN cy.fullResponse ELSE <<ErrPrefix, cy.lastError>>

\* C6: when the streaming call has failed after at least one fragment was
\* broadcast, the cycle goes on to broadcast an error event and to persist
\* the text of the fragments broadcast so far.
C6_PartialTextPersistedOnFailure ==
  [][\A c \in Cycles :
       (cycle[c].pc = "fallback" /\ cycle[c].sent # << >> /\ cycle'[c].pc # "fallback")
         => /\ cycle'[c].outcome = "error"
            /\ PendingInsert(cycle'[c]) = Concat(cycle[c].sent)]_vars

\* C7: a cycle whose upstream stream ended without any fragment ends with
\* an error event, with no complete event, and persists no answer.
C7_EmptyStreamIsFailure ==
  \A c \in Cycles :
    (cycle[c].pc = "done" /\ cycle[c].path = "stream" /\ cycle[c].sent = << >>)
      => /\ cycle[c].outcome = "error"
         /\ \A k \in 1..Len(RowsOf(c)) : RowsOf(c)[k].content[1] = ErrPrefix

\* C8: a step that makes one broadcast writes the event once to every
\* registered sink whose write does not fail and keeps that sink, and
\* removes every registered sink whose write fails, wherever the failing
\* sinks stand in the array and however many they are.
C8_BroadcastReachesLivePrunesDead ==
  [][\A c \in Cycles :
       LET before == cycle[c]
           after == cycle'[c]
           one == \/ /\ after.terminals = before.terminals + 1
                     /\ after.sent = before.sent
                  \/ /\ after.terminals = before.terminals
                     /\ Len(after.sent) = Len(before.sent) + 1
       IN  (InFlight(c) /\ one) =>
             \A s \in RegisteredIn(sseConnections, before.conv) :
               IF sinkSt[s] = "open"
               THEN /\ Len(sinkLog'[s]) = Len(sinkLog[s]) + 1
                    /\ s \in RegisteredIn(sseConnections', before.conv)
               ELSE s \notin RegisteredIn(sseConnections', before.conv)]_vars

NeverSubscribed == \A s \in Sinks : sinkSt[s] = "new"

\* what the cycle persists when nothing fails under it: the answer, or the
\* error text when the call ended in its catch
Persisted(c) ==
  /\ cycle[c].terminals = 1
  /\ Len(RowsOf(c)) = 1
  /\ RowsOf(c)[1].content =
       IF cycle[c].lastError = "none" THEN cycle[c].fullResponse
       ELSE <<ErrPrefix, cycle[c].lastError>>
  /\ cycle[c].lastError = "none" =>
       cycle[c].outcome = "complete" /\ ~IsBlank(cycle[c].fullResponse)

\* C9: while no client has ever subscribed, a cycle in flight can always
\* take its next step (the wait for a subscriber ends), and a cycle that has
\* ended without a failure under it has taken the branch without streaming
\* and has persisted the full answer of the provider as the assistant
\* message.
C9_CompletesWithoutSubscribers ==
  NeverSubscribed =>
    \A c \in Cycles :
      /\ InFlight(c) => ENABLED CycleStep(c)
      /\ (cycle[c].pc = "done" /\ faults = 0) =>
           /\ Persisted(c)
           /\ cycle[c].path \in {"regular", "none"}

C9_Witness ==
  /\ NeverSubscribed
  /\ \E c \in Cycles :
       /\ cycle[c].pc = "done" /\ cycle[c].path = "regular"
       /\ cycle[c].outcome = "complete"
       /\ Len(RowsOf(c)) = 1 /\ RowsOf(c)[1].content = <<Visible>>

\* a subscriber's cleanup leaves the calls and the table alone: it can
\* only empty the array a call holds
CleanupKeepsCycles ==
  \A s \in Sinks :
    (sinkSt[s] # "closed" /\ sinkSt'[s] = "closed") =>
      /\ messages' = messages
      /\ \A c \in Cycles : cycle'[c] = [cycle[c] EXCEPT !.curLive = cycle'[c].curLive]

\* every subscriber the conversation had has disconnected
AllGone(conv) ==
  /\ conv \notin DOMAIN sseConnections
  /\ \E s \in Sinks : sinkConv[s] = conv /\ sinkSt[s] = "closed"
  /\ \A s \in Sinks : sinkConv[s] = conv => sinkSt[s] = "closed"

\* C10: when the subscribers of a conversation disconnect while a cycle is
\* in flight, the cycle is not aborted: the disconnect changes nothing of
\* the cycle, the cycle can still take its next step, it ends with its
\* terminal broadcast, and a cycle that reports completion has persisted
\* its text.
C10_SurvivesDisconnect ==
  /\ [][CleanupKeepsCycles]_vars
  /\ [](\A c \in Cycles :
          /\ (InFlight(c) /\ AllGone(cycle[c].conv)) => ENABLED CycleStep(c)
          /\ cycle[c].pc = "done" => cycle[c].terminals = 1
          /\ (cycle[c].pc = "done" /\ cycle[c].outcome = "complete") =>
               /\ Len(RowsOf(c)) = 1
               /\ RowsOf(c)[1].content = cycle[c].fullResponse)

C10_Witness ==
  \E c \in Cycles :
    /\ cycle[c].pc = "save" /\ cycle[c].path = "stream"
    /\ cycle[c].sent # << >> /\ ~cycle[c].curLive
    /\ AllGone(cycle[c].conv)

\* the events of cycle c that sink s received
AllEventsOf(s, c) == SelectSeq(sinkLog[s], LAMBDA e : e.cyc = c)

\* C11: when the request names no AI connection and no active one exists,
\* the cycle calls no provider and broadcasts no chunk: its only event is
\* the error event that says no active AI connection was found, and the
\* assistant message it persists carries that same text.
C11_NoActiveConnection ==
  \A c \in Cycles :
    LET cy == cycle[c]
        text == <<ErrPrefix, NoActiveConnection>>
    IN  /\ (cy.aiConnection = "none" /\ cy.asked = "latest") =>
             /\ cy.pc = "saveErr" /\ cy.lastError = NoActiveConnection
             /\ cy.provider = "none"
        /\ cy.lastError = NoActiveConnection =>
             /\ cy.outcome = "error" /\ cy.terminals = 1
             /\ cy.sent = << >> /\ cy.path = "none"
             /\ \A s \in Sinks : \A k \in 1..Len(AllEventsOf(s, c)) :
                  /\ AllEventsOf(s, c)[k].type = "error"
                  /\ AllEventsOf(s, c)[k].content = text
             /\ \A k \in 1..Len(RowsOf(c)) : RowsOf(c)[k].content = text
             /\ (cy.pc = "done" /\ faults = 0) => Len(RowsOf(c)) = 1

C11_Witness ==
  \E c \in Cycles, s \in Sinks :
    /\ cycle[c].pc = "done" /\ cycle[c].lastError = NoActiveConnection
    /\ Len(AllEventsOf(s, c)) = 1
    /\ Len(RowsOf(c)) = 1

\* C12: when the insert of the answer fails after a successful generation,
\* the cycle broadcasts an error event, the one that says the answer could
\* not be saved, and no complete event: no sink holds a complete event of
\* the cycle, and when no registered sink fails each of them receives the
\* error event.
C12_SaveFailureIsError ==
  [][\A c \in Cycles :
       (cycle[c].pc = "save" /\ cycle'[c].pc = "done" /\ messages' = messages) =>
         LET conv == cycle[c].conv
             registered == RegisteredIn(sseConnections, conv)
         IN  /\ cycle'[c].outcome = "error"
             /\ cycle'[c].terminals = cycle[c].terminals + 1
             /\ \A s \in Sinks : Len(EventsOf(s, c, {"complete"}))' = 0
             /\ (\A s \in registered : sinkSt[s] = "open") =>
                  \A s \in registered :
                    sinkLog'[s] = Append(sinkLog[s], ErrorEvent(conv, SaveFailed, c))]_vars

C12_Witness ==
  \E c \in Cycles, s \in Sinks :
    /\ cycle[c].pc = "done" /\ cycle[c].outcome = "error"
    /\ cycle[c].lastError = "none" /\ cycle[c].sent # << >>
    /\ Len(RowsOf(c)) = 0
    /\ sinkSt[s] = "open"
    /\ Len(EventsOf(s, c, {"chunk"})) >= 1
    /\ ContentsOf(EventsOf(s, c, Terminal)) = <<SaveFailed>>

\* C13 (under SpecDuring): a sink that registered while a cycle was
\* running has the connected event first and once, holds no chunk of that
\* cycle that was broadcast before it registered, and, if it is still
\* connected when the cycle has broadcast its terminal event, holds that
\* terminal event.
C13_LateSubscriber ==
  \A s \in Sinks :
    sinkSt[s] = "open" =>
      LET log == sinkLog[s]
          during == log[1].during
      IN  /\ log[1].type = "connected"
          /\ \A k \in 2..Len(log) : log[k].type # "connected"
          /\ \A c \in DOMAIN during :
               /\ \A k \in 1..Len(log) :
                    (log[k].type = "chunk" /\ log[k].cyc = c) => log[k].ord > during[c]
               /\ cycle[c].terminals >= 1 => Len(EventsOf(s, c, Terminal)) = 1

\* the request r is answered in this step
Answered(r, op) ==
  /\ reqs[r].pc \notin {"done", "gone"}
  /\ reqs'[r].pc = "done" /\ reqs'[r].op = op

\* the conversation is a stored row
Exists(conversationId) ==
  /\ conversationId \in 1..Len(conversations)
  /\ conversations[conversationId] # 0

\* nothing of the registry or of the sinks changes in this step
RegistryUnchanged == UNCHANGED <<sseConnections, sinkSt, sinkConv, sinkLog>>

\* this step adds exactly the sink s to the registry of conv, with the
\* connected event as the first and only thing written to it
AddsOne(conv, s) ==
  /\ sinkSt[s] = "new" /\ sinkSt' = [sinkSt EXCEPT ![s] = "open"]
  /\ sinkLog' = [sinkLog EXCEPT ![s] = <<Connected>>]
  /\ sinkConv' = [sinkConv EXCEPT ![s] = conv]
  /\ IndexOf(Get(sseConnections, conv), s) = 0
  /\ Get(sseConnections', conv) = Append(Get(sseConnections, conv), s)
  /\ \A k \in Convs \ {conv} : Get(sseConnections', k) = Get(sseConnections, k)

\* C14 (under SpecApi): a subscribe request without a credential or with an
\* invalid one, in the query or in the header, or for a conversation that
\* is not stored, is answered 401 or 404 and registers nothing; a subscribe
\* answered 200 adds exactly one sink to the registry of its conversation,
\* with one connected event as the first thing written to it; and nothing
\* but a subscribe answered 200 adds a sink.
C14_SubscribeContract ==
  [][ /\ \A r \in Reqs :
          Answered(r, "stream") =>
            /\ reqs'[r].credential \in {"none", "bad"} =>
                 reqs'[r].status = 401 /\ RegistryUnchanged
            /\ (reqs[r].pc = "check" /\ ~Exists(reqs[r].conversationId)) =>
                 reqs'[r].status = 404 /\ RegistryUnchanged
            /\ reqs'[r].status # 200 => RegistryUnchanged
            /\ reqs'[r].status = 200 =>
                 \E s \in Sinks : AddsOne(reqs[r].conversationId, s)
      /\ ~RegistryUnchanged =>
          \E r \in Reqs : Answered(r, "stream") /\ reqs'[r].status = 200
    ]_vars

\* a subscribe was answered 200 and its sink holds the connected event
C14_Witness ==
  \E r \in Reqs, s \in Sinks :
    /\ reqs[r].pc = "done" /\ reqs[r].op = "stream" /\ reqs[r].status = 200
    /\ sinkSt[s] = "open" /\ sinkLog[s] = <<Connected>>
    /\ IndexOf(Get(sseConnections, sinkConv[s]), s) > 0


\* the conversation of the request r is stored and belongs to another user
Foreign(r) ==
  /\ Exists(reqs[r].conversationId)
  /\ conversations[reqs[r].conversationId] # reqs[r].user

\* C15 (under SpecApi): when the handler of a subscribe, send-message, read
\* or delete request looks up a stored conversation that belongs to another
\* user, it answers not-found (404; 500 when the lookup itself fails in
\* send, read and delete) and the step changes neither the conversations,
\* nor the messages, nor the registry and its sinks, nor any cycle.
C15_OnlyOwnConversations ==
  [][ \A r \in Reqs :
        (reqs[r].pc = "check" /\ Foreign(r) /\ reqs'[r] # reqs[r]) =>
          /\ reqs[r].op \in {"stream", "post", "get", "delete"}
          /\ reqs'[r].pc = "done"
          /\ reqs'[r].status = IF faults' = faults \/ reqs[r].op = "stream"
                               THEN 404 ELSE 500
          /\ UNCHANGED <<conversations, messages, sseConnections, sinkSt,
                         sinkConv, sinkLog, cycle>>
    ]_vars

\* a delete was answered 404 for a conversation that is stored and belongs
\* to another user, with nothing deleted and nothing registered
C15_Witness ==
  \E r \in Reqs :
    /\ reqs[r].pc = "done" /\ reqs[r].status = 404 /\ Foreign(r)
    /\ reqs[r].op = "delete"
    /\ sseConnections = << >> /\ \A c \in Cycles : cycle[c].pc = "idle"

\* C16 (under SpecApi): a cycle leaves idle only in the step in which a
\* send-message request is answered 200 with the id of the user row that
\* the same step inserted for the conversation of the cycle; the cycle is
\* then a timer that has not begun: it has read no connection, made no
\* provider call and broadcast nothing, and the step writes to no sink.
C16_AnsweredBeforeGeneration ==
  [][ \A c \in Cycles :
        (cycle[c].pc = "idle" /\ cycle'[c].pc # "idle") =>
          /\ cycle'[c] = [IdleCycle EXCEPT !.pc = "timer", !.conv = cycle'[c].conv]
          /\ UNCHANGED <<sseConnections, sinkSt, sinkLog>>
          /\ \E r \in Reqs :
               /\ Answered(r, "post") /\ reqs'[r].status = 200
               /\ Len(messages') = Len(messages) + 1
               /\ reqs'[r].lastID = Len(messages')
               /\ messages'[Len(messages')].role = "user"
               /\ messages'[Len(messages')].conversation_id = cycle'[c].conv
               /\ reqs'[r].conversationId = cycle'[c].conv
    ]_vars

\* a send-message was answered 200 with its row stored, and the timer of
\* its cycle has fired: the generation waits for a subscriber
C16_Witness ==
  \E r \in Reqs, c \in Cycles :
    /\ reqs[r].pc \in {"done", "gone"}
    /\ cycle[c].pc = "wait" /\ cycle[c].sent = << >>
    /\ \E k \in 1..Len(messages) :
         messages[k].role = "user" /\ messages[k].conversation_id = cycle[c].conv

\* C17 (under SpecApi): when a send-message request is answered 200, the
\* streaming flag of the answer is true if and only if the step arms a
\* generation cycle for the conversation of the message.
C17_FlagTellsGeneration ==
  [][ \A r \in Reqs :
        (Answered(r, "post") /\ reqs'[r].status = 200) =>
          (reqs'[r].streaming <=>
             \E c \in Cycles :
               /\ cycle[c].pc = "idle" /\ cycle'[c].pc = "timer"
               /\ cycle'[c].conv = reqs'[r].conversationId)
    ]_vars

\* the line carries a fragment: it is the JSON object of its provider, with
\* the data prefix for the SSE variant, and its content is not empty
WellFormed(provider, line) ==
  IF provider = "ollama"
  THEN JSONparse(line).ok /\ JSONparse(line).content # << >>
  ELSE /\ Head(line) = DataPrefix
       /\ JSONparse(Tail(line)).ok /\ JSONparse(Tail(line)).content # << >>

\* the lines of a body up to the line that ends the stream, if it has one
RECURSIVE UpToDone(_)
UpToDone(lines) ==
  IF lines = << >> \/ Head(lines) = <<DataPrefix, DoneMark>> THEN << >>
  ELSE <<Head(lines)>> \o UpToDone(Tail(lines))

\* the fragments of the well-formed lines of a body, in order
RECURSIVE ContentsOfLines(_, _)
ContentsOfLines(provider, lines) ==
  IF lines = << >> THEN << >>
  ELSE (IF WellFormed(provider, Head(lines))
        THEN <<IF provider = "ollama" THEN JSONparse(Head(lines)).content
               ELSE JSONparse(Tail(Head(lines))).content>>
        ELSE << >>) \o ContentsOfLines(provider, Tail(lines))

FragmentsOf(provider, body) ==
  ContentsOfLines(provider, UpToDone(LinesOf(body)))

\* C18 (under SpecDec): no read loop is ever left by an error, and a body
\* of well-formed and malformed lines that arrived in one read has handed
\* to onChunk exactly the fragments of its well-formed lines, in order (for
\* the SSE variant: of those before the [DONE] line).
C18_MalformedLinesSkipped ==
  /\ ~dec.raised
  /\ (dec.rest = << >> /\ dec.reads = 1) =>
       dec.emitted = FragmentsOf(dec.provider, dec.body)

\* a body of one well-formed and one malformed line was read in one read
\* and the loop returned with exactly one fragment
C18_Witness ==
  /\ dec.pc = "returned" /\ dec.reads = 1 /\ ~dec.raised
  /\ Len(LinesOf(dec.body)) = 2
  /\ \E k \in 1..2 :
       /\ WellFormed(dec.provider, LinesOf(dec.body)[k])
       /\ ~JSONparse(IF dec.provider = "ollama" THEN LinesOf(dec.body)[3 - k]
                      ELSE Tail(LinesOf(dec.body)[3 - k])).ok
  /\ Len(dec.emitted) = 1 /\ dec.returned = dec.emitted[1]

\* C19 (under SpecDec): a body of one line, in however many reads it
\* arrived, has handed to onChunk what the loop hands when the body
\* arrives in a single read.
C19_SplitLineSameFragments ==
  (dec.pc = "returned" /\ Len(LinesOf(dec.body)) = 1) =>
    dec.emitted =
      DecodeChunk([IdleDec EXCEPT !.provider = dec.provider], dec.body).emitted

\* the rows of table messages that belong to the conversation
MessagesOf(msgs, conversationId) ==
  {k \in 1..Len(msgs) : msgs[k].conversation_id = conversationId}

\* C20 (under SpecApi): a list answered 200 holds every stored conversation
\* of its user, so a created one and no deleted one; a delete answered 200
\* leaves the conversation deleted and no message of it; a delete is
\* answered 401 when it carries no token, 400 when its id is not numeric
\* and 404 when its conversation is not stored, and a delete answered with
\* one of these leaves the conversations unchanged.
C20_CreateListDelete ==
  [][ \A r \in Reqs :
        /\ (Answered(r, "list") /\ reqs'[r].status = 200) =>
             reqs'[r].list = {k \in 1..Len(conversations) :
                                conversations[k] = reqs[r].user}
        /\ (Answered(r, "create") /\ reqs'[r].status = 201) =>
             /\ reqs'[r].lastID = Len(conversations')
             /\ conversations'[reqs'[r].lastID] = reqs[r].user
        /\ Answered(r, "delete") =>
             /\ reqs'[r].status = 200 =>
                  /\ ~Exists(reqs[r].conversationId)'
                  /\ MessagesOf(messages', reqs[r].conversationId) = {}
             /\ reqs'[r].credential = "none" => reqs'[r].status = 401
             /\ (reqs'[r].credential = "ok" /\ ~reqs'[r].numeric
                   /\ faults' = faults) => reqs'[r].status = 400
             /\ (reqs[r].pc = "check" /\ reqs[r].numeric /\ faults' = faults
                   /\ ~Exists(reqs[r].conversationId)) => reqs'[r].status = 404
             /\ reqs'[r].status \in {400, 401, 404} => UNCHANGED conversations
    ]_vars

\* the API keys a response body holds
KeysIn(resp) ==
  {resp[k].config.apiKey : k \in {j \in 1..Len(resp) : "apiKey" \in DOMAIN resp[j].config}}

C22_DoneEndsStream == dec.provider = "openai" => dec.late = 0

\* C23 (under SpecDec): the NDJSON read loop hands no fragment to onChunk
\* after it has decoded a line with done: true, and returns then without
\* another read.
C23_DoneFlagEndsStream ==
  dec.provider = "ollama" =>
    /\ dec.late = 0
    /\ dec.doneSeen => dec.pc = "returned"

\* how an attempt that failed at the connection level is recorded
ConnectionFailures ==
  {e.name \o ": " \o e.message : e \in {Timeout, Refused}}

\* C24 (under SpecClient): the endpoints contacted are the head of the
\* candidate list, in its order and from the configured endpoint on; every
\* attempt but the last contacted ended in a connection-level failure, so
\* neither an answer nor a non-2xx answer is followed by another attempt.
C24_FailoverOnlyOnConnectionFailure ==
  /\ client.contacted = SubSeq(client.endpoints, 1, Len(client.contacted))
  /\ \A k \in 1..(Len(client.ended) - 1) : client.ended[k] \in ConnectionFailures

\* C25 (under SpecClient): when the last candidate has failed, the error
\* thrown tells how that last attempt failed: it is a timeout message if
\* and only if the last attempt timed out and a cannot-connect message if
\* and only if it was refused, in both modes.
C25_LastErrorSurfaced ==
  client.pc = "thrown" =>
    LET last == client.ended[Len(client.ended)]
        timeouts == {TimeoutMessage, Timeout.message}
        refusals == {CannotConnect, Refused.message}
    IN  /\ client.thrown.message \in timeouts
           <=> last = Timeout.name \o ": " \o Timeout.message
        /\ client.thrown.message \in refusals
           <=> last = Refused.name \o ": " \o Refused.message
        /\ client.thrown.message = ApiError.message
           <=> last = ApiError.name \o ": " \o ApiError.message

\* all five candidates failed, the first four refused and the last timed
\* out, and the streaming call threw the timeout
C25_Witness ==
  /\ client.pc = "thrown" /\ client.mode = "streaming"
  /\ Len(client.contacted) = 5
  /\ client.ended[1] = Refused.name \o ": " \o Refused.message
  /\ client.thrown = Timeout

\* the active rows of a store
ActiveIn(store) == {id \in 1..Len(store) : store[id].is_active}

\* the greatest of a set of ids
Greatest(ids) == CHOOSE id \in ids : \A other \in ids : other <= id

\* C26 (under SpecResolve): a cycle called with an aiConnectionId resolves
\* the row of that id if it is stored and active and else fails with 'AI
\* connection not found or inactive'; a cycle called without one resolves
\* the active row created last (ids grow with creation) and fails with 'No
\* active AI connection found..' when there is none; and the row a cycle
\* calls the provider with is active.
C26_ConnectionResolved ==
  /\ (ai.pc # "idle" /\ ai.asked # 0) =>
       IF ai.asked \in ActiveIn(ai.seen)
       THEN ai.pc # "failed" /\ ai.used = ai.asked
       ELSE ai.pc = "failed" /\ ai.error = NotFoundOrInactive
  /\ (ai.pc # "idle" /\ ai.asked = 0) =>
       IF ActiveIn(ai.seen) # {}
       THEN ai.pc # "failed" /\ ai.used = Greatest(ActiveIn(ai.seen))
       ELSE ai.pc = "failed" /\ ai.error = NoActiveConnection
  /\ ai.pc = "generating" => ai.storeA[ai.used].is_active

\* the contents of the chunk events of cycle c in the log of sink s, in the
\* order received
ChunksOf(s, c) == ContentsOf(EventsOf(s, c, {"chunk"}))

\* C27 (under SpecSynth): the chunk events of a cycle that got its response
\* from generateResponse (in the branch without streaming, or in the catch
\* of the streaming call that subscribers had it take) carry at most
\* chunkSize characters each, and put together in the order received they
\* are the full response.
C27_SynthesizedChunks ==
  \A c \in Cycles, s \in Sinks :
    (cycle[c].path \in {"regular", "fallback"} /\ ChunksOf(s, c) # << >>) =>
      /\ \A k \in 1..Len(ChunksOf(s, c)) : Len(ChunksOf(s, c)[k]) <= chunkSize
      /\ Concat(ChunksOf(s, c)) = cycle[c].fullResponse

\* C28: every complete event a sink holds names a stored message: the
\* assistant row that the cycle of the event inserted for its conversation,
\* holding the full response of the cycle.
C28_CompleteAfterPersisted ==
  \A s \in Sinks : \A k \in 1..Len(sinkLog[s]) :
    LET e == sinkLog[s][k] IN
    e.type = "complete" =>
      /\ e.message_id \in 1..Len(messages)
      /\ messages[e.message_id].id = e.message_id
      /\ messages[e.message_id].role = "assistant"
      /\ messages[e.message_id].cyc = e.cyc
      /\ messages[e.message_id].conversation_id = e.conversation_id
      /\ RowsOf(e.cyc) = <<messages[e.message_id]>>

\* a sink holds the complete event of the second cycle, whose row is not
\* the first of the table
C28_Witness ==
  \E s \in Sinks : \E k \in 1..Len(sinkLog[s]) :
    /\ sinkLog[s][k].type = "complete"
    /\ sinkLog[s][k].message_id > 2
    /\ cycle[sinkLog[s][k].cyc].pc = "done"

\* C29: a step leaves every stored message as it is and adds at most one;
\* no cycle ever has more than one assistant row; and the step in which the
\* insert of a cycle answers leaves the cycle with exactly one assistant
\* row when the insert did not fail, and with none when it did.
C29_OnlyAppends ==
  [][/\ Len(messages') \in {Len(messages), Len(messages) + 1}
     /\ SubSeq(messages', 1, Len(messages)) = messages
     /\ \A c \in Cycles :
          /\ Len(RowsOf(c))' <= 1
          /\ (cycle[c].pc \in {"save", "saveErr"} /\ cycle'[c].pc = "done") =>
               Len(RowsOf(c))' = IF faults' = faults THEN 1 ELSE 0]_vars

\* both cycles are over: one stored its answer behind the rows that were
\* there, the insert of the other failed
C29_Witness ==
  \E c, d \in Cycles :
    /\ cycle[c].pc = "done" /\ cycle[d].pc = "done"
    /\ Len(RowsOf(c)) = 1 /\ RowsOf(c)[1].id = Len(messages)
    /\ Len(RowsOf(d)) = 0
    /\ Len(messages) = 3

\* the registry as the subscribers of each conversation, in order
Subscribers == [conv \in Convs |-> Get(sseConnections, conv)]

\* the map holds an array for conv that broadcasts have emptied
EmptyEntry(conv) == conv \in DOMAIN sseConnections /\ sseConnections[conv] = << >>

\* C30: a run of cleanup for sink s takes s out of the subscribers of its
\* conversation and nothing else: every other sink that was registered
\* still is, in the same order.  A run for a sink that cleanup has handled
\* before leaves the subscribers of every conversation as they are, and
\* leaves the map itself as it is but for dropping an array that
\* broadcasts have emptied.
C30_CleanupIdempotent ==
  [][\A s \in Sinks :
       cleanup(s) =>
         /\ \A t \in Sinks \ {s} :
              t \in RegisteredIn(sseConnections, sinkConv[t]) =>
                t \in RegisteredIn(sseConnections', sinkConv[t])
         /\ Subscribers' =
              [conv \in Convs |->
                 SelectSeq(Subscribers[conv], LAMBDA t : t # s)]
         /\ sinkSt[s] = "closed" =>
              /\ Subscribers' = Subscribers
              /\ ~EmptyEntry(sinkConv[s]) => sseConnections' = sseConnections]_vars

\* cleanup has run for a sink and can run for it again while another sink
\* is registered for the same conversation
C30_Witness ==
  \E s \in Sinks, t \in Sinks :
    /\ s # t
    /\ sinkSt[s] = "closed" /\ sinkSt[t] = "open"
    /\ sinkConv[s] = sinkConv[t]
    /\ s \notin RegisteredIn(sseConnections, sinkConv[s])
    /\ t \in RegisteredIn(sseConnections, sinkConv[t])

\* C31: a conversation without a registered subscriber and without a
\* generation cycle in flight has no entry in the map sseConnections.
C31_NoEmptyEntry ==
  \A conv \in Convs :
    (/\ Get(sseConnections, conv) = << >>
     /\ \A c \in Cycles : cycle[c].conv = conv => ~InFlight(c))
      => conv \notin DOMAIN sseConnections

\* C32 (under SpecRooms): the step in which a cycle broadcasts its complete
\* event closes no connection, keeps every registered sink of the
\* conversation whose socket is alive, registers none, removes only sinks
\* whose socket is gone, and leaves the entries of the other conversations
\* as they are.
C32_CompleteKeepsSubscribers ==
  [][\A c \in Cycles :
       (/\ cycle'[c].terminals = cycle[c].terminals + 1
        /\ cycle'[c].outcome = "complete") =>
         LET conv == cycle[c].conv
             before == RegisteredIn(sseConnections, conv)
             after == RegisteredIn(sseConnections', conv)
         IN  /\ sinkSt' = sinkSt
             /\ after \subseteq before
             /\ \A s \in before : sinkSt[s] = "open" => s \in after
             /\ \A other \in Rooms \ {conv} :
                  /\ (other \in DOMAIN sseConnections')
                       = (other \in DOMAIN sseConnections)
                  /\ Get(sseConnections', other) = Get(sseConnections, other)]_vars

\* a sink that received a complete event is still registered and alive,
\* beside a subscriber of another conversation
C32_Witness ==
  \E s \in Sinks, t \in Sinks :
    /\ sinkSt[s] = "open" /\ sinkSt[t] = "open"
    /\ sinkConv[s] # sinkConv[t]
    /\ s \in RegisteredIn(sseConnections, sinkConv[s])
    /\ t \in RegisteredIn(sseConnections, sinkConv[t])
    /\ \E k \in 1..Len(sinkLog[s]) : sinkLog[s][k].type = "complete"

\* C33 (under SpecBusy): a call for one conversation that is under way
\* while a call for another conversation is under way, wherever that one
\* stands and even if it never goes on, ends after having broadcast its
\* terminal event.
C33_OtherConversationProceeds ==
  (/\ InFlight(Last)
   /\ \E c \in Cycles \ {Last} :
        InFlight(c) /\ cycle[c].conv # cycle[Last].conv)
    ~> (cycle[Last].pc = "done" /\ cycle[Last].terminals >= 1)

\* the last call has completed for its conversation while the call of
\* another conversation still waits for bytes of its upstream
C33_Witness ==
  \E c \in Cycles \ {Last} :
    /\ cycle[c].pc = "read"
    /\ cycle[c].conv # cycle[Last].conv
    /\ cycle[Last].pc = "done" /\ cycle[Last].outcome = "complete"
    /\ \E s \in Sinks : EventsOf(s, Last, {"complete"}) # << >>

\* C34 (under SpecOrphan): every stored message is a message of a stored
\* conversation.
C34_MessagesHaveConversation ==
  \A k \in 1..Len(messages) :
    messages[k].conversation_id # 0 =>
      /\ messages[k].conversation_id \in 1..Len(conversations)
      /\ conversations[messages[k].conversation_id] # 0

\* C35: when the streaming call to the Ollama client has returned after
\* handing fragments to onChunk, the fragments broadcast for the call, put
\* together in order, are the text it returned.
C35_FragmentsOfOneAttempt ==
  \A c \in Cycles :
    (/\ cycle[c].pc = "save" /\ cycle[c].path = "stream"
     /\ cycle[c].provider = "ollama" /\ cycle[c].sent # << >>)
      => Concat(cycle[c].sent) = cycle[c].fullResponse

\* C36 (under SpecRooms): every chunk, complete and error event a sink
\* holds is an event of the conversation the sink subscribed to, and was
\* broadcast by a cycle of that conversation.
C36_NoCrossConversationEvent ==
  \A s \in Sinks : \A k \in 1..Len(sinkLog[s]) :
    LET e == sinkLog[s][k] IN
    e.type \in {"chunk", "complete", "error"} =>
      /\ e.conversation_id = sinkConv[s]
      /\ cycle[e.cyc].conv = sinkConv[s]

\* two sinks of two conversations are alive and each has received a chunk
C36_Witness ==
  \E s \in Sinks, t \in Sinks :
    /\ sinkConv[s] # sinkConv[t]
    /\ sinkSt[s] = "open" /\ sinkSt[t] = "open"
    /\ \E k \in 1..Len(sinkLog[s]) : sinkLog[s][k].type = "chunk"
    /\ \E k \in 1..Len(sinkLog[t]) : sinkLog[t][k].type = "chunk"

\* C37 (under SpecHook): the step in which a timer set by a complete or
\* error event fires closes no EventSource but the one the event arrived
\* on, and does not close the one that the subscription of a generation
\* under way rests on.
C37_TimerClosesOwnConnection ==
  [][\A t \in hook.timers :
       t \notin hook'.timers =>
         \A source \in hook'.closed \ hook.closed :
           source = t.on /\ source # hook.relies]_vars

\* the send-message request r carried a verified token
Posted(q) == q.op = "post" /\ q.credential = "ok"

\* C38 (under SpecApi): a send-message request with a verified token whose
\* content is empty or blank, or whose role is none of user, assistant and
\* system, goes no further than its first slice and is answered 400 in a
\* step that leaves the messages and the cycles as they are; the step that
\* stores a message of role assistant or system adds that one row and
\* leaves the cycles as they are.
C38_InvalidRejectedOthersStored ==
  [][\A r \in Reqs :
       LET q == reqs'[r] IN
       /\ (Posted(q) /\ (q.blank \/ q.role = "bogus")) =>
            /\ q.pc = "done" /\ q.status = 400
            /\ reqs[r].pc = "idle" => (messages' = messages /\ cycle' = cycle)
       /\ (/\ Posted(q) /\ q.role \in {"assistant", "system"}
           /\ reqs[r].pc = "insert" /\ q.pc = "done" /\ q.status = 200) =>
            /\ Len(messages') = Len(messages) + 1
            /\ SubSeq(messages', 1, Len(messages)) = messages
            /\ messages'[Len(messages')].role = q.role
            /\ messages'[Len(messages')].conversation_id = q.conversationId
            /\ cycle' = cycle]_vars

\* a send-message request with a bogus role has been answered 400 after a
\* message of role assistant was stored, and no cycle has been started
C38_Witness ==
  /\ \E r \in Reqs :
       /\ Posted(reqs[r]) /\ reqs[r].pc = "done" /\ reqs[r].status = 400
       /\ reqs[r].role = "bogus" /\ ~reqs[r].blank
  /\ \E k \in 1..Len(messages) : messages[k].role = "assistant"
  /\ \A k \in 1..Len(messages) : messages[k].role # "user"
  /\ \A c \in Cycles : cycle[c].pc = "idle"

====
